---- MODULE Spec2Model ----
(***************************************************************************)
(* Model of the resumable video-generation pipeline:                       *)
(*   src/src/state.py          VideoState, the checkpoint store            *)
(*   src/src/classes/Video.py  Video, the stage functions and controller   *)
(*   src/src/cron.py           handle_video_generation, the run selector   *)
(*                                                                         *)
(* Python values are represented as follows.                               *)
(*   dict        a function; Put is item assignment, DOMAIN the key set    *)
(*   list        a sequence                                                *)
(*   str         a run-length encoded sequence of <<character, count>>     *)
(*   str | None  None is <<>>, the string t is <<t>>                       *)
(*   timestamp   the wall clock in ticks, TicksPerDay of them to the day   *)
(*   uuid4()     the next unused positive integer                          *)
(***************************************************************************)
EXTENDS Integers, Sequences, FiniteSets, TLC

\* ------------------------------------------------------------------ bounds
MaxRuns == 2
MaxClock == 2
MaxSteps == 2
MaxOps == 4
MaxSessions == 1
MaxInvocations == 2
MaxFiles == 6
MaxDepth == 5

\* ------------------------------------------------------------------ values
Empty == [k \in {} |-> 0]

Put(d, k, v) == [f \in DOMAIN d \cup {k} |-> IF f = k THEN v ELSE d[f]]

Del(d, ks) == [f \in DOMAIN d \ ks |-> d[f]]

None == <<>>

Some(t) == <<t>>

Txt(c, n) == << <<c, n>> >>

RECURSIVE StrLen(_)
StrLen(t) == IF t = <<>> THEN 0 ELSE t[1][2] + StrLen(Tail(t))

IsPrefix(s, t) == Len(s) <= Len(t) /\ \A i \in 1..Len(s) : s[i] = t[i]

StageOrder == <<"topic", "script", "metadata", "image_prompts", "images", "tts">>

Terminal == {"completed", "failed"}

\* timedelta.days counts whole days; the clock itself is finer.
TicksPerDay == 2

\* ------------------------------------------------------------------ state
VARIABLES
    disk,    \* the persisted document .state/video_state.json
    mem,     \* VideoState._state of the live store object
    up,      \* whether a process holding the store object is running
    peer,    \* VideoState._state of the store object of a second process
    sync,    \* where each process is in a save, and whether the file is empty
    now,     \* the wall clock read by datetime.now()
    nextId,  \* how many uuid4 run identifiers have been handed out
    nops,    \* how many store methods have been called
    last,    \* the most recent operation, its arguments and its outcome
    pc,      \* the collaborator call the controller is waiting on, or idle/done
    ctl,     \* the Video object and the locals of generate_video
    valid,   \* the files of .mp that exist and open: images and narrations
    videos,  \* the video files in the durable videos directory
    nextFile,\* how many uuid4 file names have been handed out
    invs,    \* how many controller invocations have been started
    healthy, \* every collaborator call succeeds with acceptable output from now on
    obs      \* what this invocation has done so far (observation only)

storeVars == <<disk, mem, up, peer, sync, now, nextId, nops, last>>

pipeVars == <<peer, pc, ctl, valid, videos, nextFile, invs, healthy, obs>>

vars == <<disk, mem, up, peer, sync, now, nextId, nops, last, pc, ctl, valid, videos, nextFile, invs, healthy, obs>>

\* ------------------------------------------------------- VideoState (store)
Doc(st) == [valid |-> TRUE, runs |-> st]

TruncatedDoc == [valid |-> FALSE, runs |-> Empty]

IoOutcomes == {"ok", "open_error", "write_error", "crash_before", "crash_during"}

Crashes == {"crash_before", "crash_during"}

\* open(VIDEO_STATE_FILE, 'w') truncates the file, json.dump then writes the
\* document piece by piece; an exception is logged and swallowed.  Beside
\* another process the two are steps of their own: the file is truncated and
\* the dump is still to come (opened).
save_state(st, d, io) ==
    CASE io = "ok" -> Doc(st)
      [] io \in {"open_error", "crash_before"} -> d
      [] io \in {"write_error", "crash_during", "opened"} -> TruncatedDoc

\* "except Exception" in _save_state: no failure of the write leaves the method.
save_state_raises(io) == FALSE

load_state(d) == IF d.valid THEN d.runs ELSE Empty

\* "except Exception" in _load_state: no failure of the load leaves the method.
load_state_raises(d) == FALSE

Persist(res, d, io) == IF res.save THEN save_state(res.state, d, io) ELSE d

create_video_session(st, session_id, niche, language, t) ==
    [state |-> Put(st, session_id,
                   [id |-> session_id, created_at |-> t, niche |-> niche,
                    language |-> language, status |-> "initialized",
                    steps_completed |-> <<>>, data |-> Empty]),
     save |-> TRUE]

\* A save_step_result that records only the latest step.
save_step_result_forgetting(st, session_id, step, data, t) ==
    IF session_id \notin DOMAIN st
    THEN [state |-> st, save |-> FALSE]
    ELSE LET s0 == st[session_id]
             s1 == Put(s0, "steps_completed", <<step>>)
             s2 == Put(s1, "data", Put(Empty, step, data))
             s3 == Put(s2, "status", "in_progress")
             s4 == Put(s3, "last_updated", t)
         IN [state |-> Put(st, session_id, s4), save |-> TRUE]

\* A save_step_result that opens a session for an identifier it does not know.
save_step_result_upserting(st, session_id, step, data, t) ==
    LET s0 == IF session_id \in DOMAIN st THEN st[session_id]
              ELSE [id |-> session_id, created_at |-> t, status |-> "initialized",
                    steps_completed |-> <<>>, data |-> Empty]
        s1 == Put(s0, "steps_completed", Append(s0.steps_completed, step))
        s2 == Put(s1, "data", Put(s1.data, step, data))
        s3 == Put(s2, "status", "in_progress")
        s4 == Put(s3, "last_updated", t)
    IN [state |-> Put(st, session_id, s4), save |-> TRUE]

save_step_result(st, session_id, step, data, t) ==
    IF session_id \notin DOMAIN st
    THEN [state |-> st, save |-> FALSE]
    ELSE LET s0 == st[session_id]
             s1 == Put(s0, "steps_completed", Append(s0.steps_completed, step))
             s2 == Put(s1, "data", Put(s1.data, step, data))
             s3 == Put(s2, "status", "in_progress")
             s4 == Put(s3, "last_updated", t)
         IN [state |-> Put(st, session_id, s4), save |-> TRUE]

mark_completed(st, session_id, video_path, t) ==
    IF session_id \notin DOMAIN st
    THEN [state |-> st, save |-> FALSE]
    ELSE LET s0 == st[session_id]
             s1 == Put(s0, "status", "completed")
             s2 == Put(s1, "video_path", video_path)
             s3 == Put(s2, "completed_at", t)
         IN [state |-> Put(st, session_id, s3), save |-> TRUE]

\* A mark_failed that leaves a run alone once it is completed or failed.
mark_failed_once(st, session_id, error_message, t) ==
    IF session_id \notin DOMAIN st \/ st[session_id].status \in Terminal
    THEN [state |-> st, save |-> FALSE]
    ELSE LET s0 == st[session_id]
             s1 == Put(s0, "status", "failed")
             s2 == Put(s1, "error", error_message)
             s3 == Put(s2, "failed_at", t)
         IN [state |-> Put(st, session_id, s3), save |-> TRUE]

mark_failed(st, session_id, error_message, t) ==
    IF session_id \notin DOMAIN st
    THEN [state |-> st, save |-> FALSE]
    ELSE LET s0 == st[session_id]
             s1 == Put(s0, "status", "failed")
             s2 == Put(s1, "error", error_message)
             s3 == Put(s2, "failed_at", t)
         IN [state |-> Put(st, session_id, s3), save |-> TRUE]

\* A listing that leaves out the failed sessions.
get_incomplete_sessions_unfailed(st) ==
    {i \in DOMAIN st : st[i].status \in {"initialized", "in_progress"}}

get_incomplete_sessions(st) ==
    {i \in DOMAIN st : st[i].status \in {"initialized", "in_progress", "failed"}}

cleanup_completed_sessions(st, days_old, t) ==
    LET to_remove == {i \in DOMAIN st :
                        /\ st[i].status = "completed"
                        /\ (t - st[i].completed_at) \div TicksPerDay > days_old}
    IN [state |-> Del(st, to_remove), save |-> to_remove # {}]

\* A cleanup that spares the failed sessions.
cleanup_incomplete_sessions_sparing_failed(st) ==
    LET to_remove == {i \in DOMAIN st : st[i].status \in {"initialized", "in_progress"}}
    IN [state |-> Del(st, to_remove), save |-> to_remove # {}]

cleanup_incomplete_sessions(st) ==
    LET to_remove == {i \in DOMAIN st : st[i].status # "completed"}
    IN [state |-> Del(st, to_remove), save |-> to_remove # {}]

\* _migrate_sessions: back-fill the fields an old document lacks.  NoneTime
\* stands for None, the value session.get('created_at') gives a run that has
\* no created_at.
NoneTime == -1

Get(d, k, default) == IF k \in DOMAIN d THEN d[k] ELSE default

Default(d, k, v) == IF k \in DOMAIN d THEN d ELSE Put(d, k, v)

\* A migration that also takes every run back to its initial status.
migrate_session_resetting(session_id, session, t) ==
    LET s1 == Default(session, "id", session_id)
        s2 == IF "last_updated" \notin DOMAIN s1 /\ Get(s1, "status", "") # "completed"
              THEN Put(s1, "last_updated", Get(s1, "created_at", NoneTime))
              ELSE s1
        s3 == Default(s2, "created_at", t)
        s4 == Put(s3, "status", "initialized")
        s5 == Default(s4, "steps_completed", <<>>)
    IN Default(s5, "data", Empty)

migrate_session(session_id, session, t) ==
    LET s1 == Default(session, "id", session_id)
        s2 == IF "last_updated" \notin DOMAIN s1 /\ Get(s1, "status", "") # "completed"
              THEN Put(s1, "last_updated", Get(s1, "created_at", NoneTime))
              ELSE s1
        s3 == Default(s2, "created_at", t)
        s4 == Default(s3, "status", "initialized")
        s5 == Default(s4, "steps_completed", <<>>)
    IN Default(s5, "data", Empty)

migrate_sessions(st, t) ==
    LET new == [i \in DOMAIN st |-> migrate_session(i, st[i], t)]
    IN [state |-> new, save |-> \E i \in DOMAIN st : new[i] # st[i]]

\* ------------------------------------------------- cron.py (run selector)
SortKey(session) == Get(session, "last_updated", session.created_at)

\* max() keeps the first maximal item; the dict iterates in insertion order,
\* which is the order of creation, which is the order of the identifiers.  With
\* two items or more every key is compared with another one, and comparing
\* None (the last_updated the migration gave a run without created_at) raises
\* TypeError; with one item nothing is compared.
get_latest_incomplete_session(st) ==
    LET incomplete == get_incomplete_sessions(st)
    IN IF incomplete = {} THEN [raises |-> FALSE, session |-> {}]
       ELSE IF Cardinality(incomplete) > 1 /\ \E i \in incomplete : SortKey(st[i]) = NoneTime
       THEN [raises |-> TRUE, session |-> {}]
       ELSE [raises |-> FALSE,
             session |-> {CHOOSE i \in incomplete :
                            \A j \in incomplete :
                                \/ SortKey(st[j]) < SortKey(st[i])
                                \/ SortKey(st[j]) = SortKey(st[i]) /\ i <= j}]

\* ------------------------------------------------- Video.py (the controller)
\* A controller context c is [st, dk, k, pc, saves, snap]: the store object's
\* _state, the document, the Video object with the locals of the job, the
\* place the controller is at (a collaborator call it waits on, or a label of
\* the code it is about to run), the number of saves made since the step
\* began, and the data the run held when generate_video was entered (None
\* while it has not been entered in this step).
MsgTopic == "Failed to generate topic"

MsgScript == "Failed to generate script"

MsgException == "Failed to generate video: exception"

MsgNoImages == "No valid images found to create video"

MsgNoClips == "Failed to create any valid video clips"

ScriptLimit == 5000

TitleLimit == 100

G4FPromptCap == 10

G4FPromptKeep == 25

Data(c) == IF c.k.sid \in DOMAIN c.st THEN c.st[c.k.sid].data ELSE Empty

StoreCall(c, res) ==
    [c EXCEPT !.st = res.state, !.dk = Persist(res, c.dk, "ok"),
              !.saves = IF res.save THEN @ + 1 ELSE @]

Return(c, value) == [c EXCEPT !.pc = "done", !.k.ret = value]

\* except Exception in generate_video: the exception has left every frame of
\* the stage function; mark the run failed and return None.
Raise(c) ==
    Return(StoreCall([c EXCEPT !.k.depth = 0],
                     mark_failed(c.st, c.k.sid, MsgException, now)),
           None)

\* save_step_result(self.session_id, step, data) from a stage function.
Checkpoint(c, step, data) ==
    StoreCall(c, save_step_result(c.st, c.k.sid, step, data, now))

\* generate_video goes on with the stage function (or the call) named label.
Goto(c, label) == [c EXCEPT !.pc = label]

\* Video.combine is entered: the next call is the assembly itself.
EnterCombine(c) == Goto(c, "assemble")

\* re.sub(r'[^\w\s.?!]', '', self.script): the characters the narration drops.
Stripped == {"*", ","}

CleanScript(t) == SelectSeq(t, LAMBDA run : run[1] \notin Stripped)

\* A narration stage that synthesizes whether or not a checkpoint exists.
EnterTts_resynthesizing(c) ==
    IF c.k.v.script = <<>> THEN Raise(c)
    ELSE Goto([c EXCEPT !.k.v.script = Some(CleanScript(c.k.v.script[1]))], "tts")

\* Video.generate_script_to_speech up to tts_instance.synthesize: the script
\* is cleaned before it is handed to the synthesizer.
EnterTts(c) ==
    IF "tts" \in DOMAIN Data(c)
    THEN Goto([c EXCEPT !.k.v.tts_path = Some(Data(c)["tts"].path)], "at_combine")
    ELSE IF c.k.v.script = <<>> THEN Raise(c)
    ELSE Goto([c EXCEPT !.k.v.script = Some(CleanScript(c.k.v.script[1]))], "tts")

\* The save after the image loop: the stored list is self.images itself.
FinishImages(c) ==
    Goto([Checkpoint(c, "images", [paths |-> c.k.v.images, completed |-> TRUE])
            EXCEPT !.k.aliased = TRUE],
         "at_tts")

\* generate_video, "if not has_all_images": the loop over self.image_prompts.
EnterImages(c) ==
    IF c.k.has_all_images THEN Goto(c, "at_tts")
    ELSE IF c.k.v.image_prompts = <<>> THEN Raise(c)
    ELSE IF c.k.v.image_prompts[1] = <<>> THEN FinishImages(c)
    ELSE [c EXCEPT !.pc = "images", !.k.idx = 1]

\* Video.generate_prompts up to generate_response.
EnterPrompts(c) ==
    IF "image_prompts" \in DOMAIN Data(c)
    THEN Goto([c EXCEPT !.k.v.image_prompts = Some(Data(c)["image_prompts"].prompts)],
              "at_images")
    ELSE IF c.k.v.script = <<>> \/ c.k.v.subject = <<>> THEN Raise(c)
    ELSE Goto(c, "image_prompts")

\* Video.generate_metadata up to the title's generate_response.
EnterMetadata(c) ==
    IF "metadata" \in DOMAIN Data(c)
    THEN Goto([c EXCEPT !.k.v.metadata = Some(Data(c)["metadata"])], "at_prompts")
    ELSE IF c.k.v.subject = <<>> THEN Raise(c)
    ELSE Goto(c, "metadata")

\* Video.generate_script up to generate_response.
EnterScript(c) ==
    IF "script" \in DOMAIN Data(c)
    THEN Goto([c EXCEPT !.k.v.script = Data(c)["script"].content], "at_metadata")
    ELSE IF c.k.v.subject = <<>> THEN Raise(c)
    ELSE Goto(c, "script")

\* A topic stage that asks for a topic whether or not a checkpoint exists.
EnterTopic_regenerating(c) == Goto(c, "topic")

\* Video.generate_topic up to generate_response.
EnterTopic(c) ==
    IF "topic" \in DOMAIN Data(c)
    THEN Goto([c EXCEPT !.k.v.subject = Data(c)["topic"].subject], "at_script")
    ELSE Goto(c, "topic")

\* A stage function calls itself: one more frame.  Nothing in the code counts
\* the frames; the steps below explore them up to MaxDepth.
Deeper(c) == [c EXCEPT !.k.depth = c.k.depth + 1]

\* The stage function returned: its frames are gone.
Unwind(c) == [c EXCEPT !.k.depth = 0]

\* ---- topic
TopicResponses == {None, Some(Txt("t", 10))}

generate_topic(c, completion) ==
    IF completion = None
    THEN Goto(Unwind(StoreCall(c, mark_failed(c.st, c.k.sid, MsgTopic, now))), "at_script")
    ELSE Goto(Unwind(Checkpoint([c EXCEPT !.k.v.subject = completion],
                                "topic", [subject |-> completion])),
              "at_script")

\* ---- script
RemoveStars(t) == SelectSeq(t, LAMBDA run : run[1] # "*")

ScriptResponses ==
    {None, Some(Txt("*", 3)), Some(<<<<"s", 4>>, <<"*", 2>>, <<",", 1>>, <<"s", 2>>>>),
     Some(Txt("s", ScriptLimit + 1))}

\* A generate_script without the length limit.
generate_script_unchecked(c, response) ==
    IF response = None THEN Raise(c)
    ELSE LET completion == RemoveStars(response[1])
         IN IF completion = <<>>
            THEN Goto(Unwind(StoreCall(c, mark_failed(c.st, c.k.sid, MsgScript, now))),
                      "at_metadata")
            ELSE Goto(Unwind(Checkpoint([c EXCEPT !.k.v.script = Some(completion)],
                                        "script", [content |-> Some(completion)])),
                      "at_metadata")

\* Returning hands on to generate_metadata; a script that is too long makes
\* the stage function call itself.
generate_script(c, response) ==
    IF response = None THEN Raise(c)
    ELSE LET completion == RemoveStars(response[1])
         IN IF completion = <<>>
            THEN Goto(Unwind(StoreCall(c, mark_failed(c.st, c.k.sid, MsgScript, now))),
                      "at_metadata")
            ELSE IF StrLen(completion) > ScriptLimit
            THEN Goto(Deeper(c), "at_script")
            ELSE Goto(Unwind(Checkpoint([c EXCEPT !.k.v.script = Some(completion)],
                                        "script", [content |-> Some(completion)])),
                      "at_metadata")

\* ---- metadata
TitleResponses == {None, Some(Txt("T", TitleLimit)), Some(Txt("T", TitleLimit + 1))}

DescriptionResponses == {None, Some(Txt("d", 20))}

\* A generate_metadata that takes a title of any length.
generate_metadata_title_unchecked(c, title) ==
    IF title = None THEN Raise(c)
    ELSE IF c.k.v.script = <<>> THEN Raise(c)
    ELSE [c EXCEPT !.k.title = title, !.pc = "description"]

generate_metadata_title(c, title) ==
    IF title = None THEN Raise(c)
    ELSE IF StrLen(title[1]) > TitleLimit
    THEN Goto(Deeper(c), "at_metadata")
    ELSE IF c.k.v.script = <<>> THEN Raise(c)
    ELSE [c EXCEPT !.k.title = title, !.pc = "description"]

generate_metadata_description(c, description) ==
    LET metadata == [title |-> c.k.title, description |-> description]
    IN Goto(Unwind(Checkpoint([c EXCEPT !.k.v.metadata = Some(metadata), !.k.title = None],
                              "metadata", metadata)),
            "at_prompts")

\* ---- image prompts
\* A completion is described by its shape: a JSON array of strings ("array"),
\* a JSON object holding one under "image_prompts" ("object"), prose around a
\* bracketed array ("prose_array"), prose without brackets ("prose"), or prose
\* that has the word image_prompts in it ("prose_mention").  P(x) is the
\* prompt string x; RawArray(items) is the text of the bracketed array itself,
\* as one string.
P(x) == [s |-> x]

RawArray(items) == [raw |-> items]

Completion(kind, items) == Some([kind |-> kind, items |-> items])

PromptResponses ==
    {None,
     Completion("array", <<P("a"), P("b")>>),
     Completion("array", <<>>),
     Completion("object", <<P("a"), P("b")>>),
     Completion("prose_array", <<P("a"), P("b"), P("c")>>),
     Completion("prose", <<>>),
     Completion("prose_mention", <<>>)}

\* str(None) is "None": prose without brackets.  A text with image_prompts in
\* it is handed to json.loads outside the try: prose makes that raise.
parse_image_prompts(completion) ==
    IF completion = None THEN [retry |-> TRUE, raises |-> FALSE, prompts |-> <<>>]
    ELSE LET text == completion[1]
         IN CASE text.kind = "object" ->
                    [retry |-> FALSE, raises |-> FALSE, prompts |-> text.items]
              [] text.kind = "prose_mention" ->
                    [retry |-> FALSE, raises |-> TRUE, prompts |-> <<>>]
              [] text.kind = "array" ->
                    [retry |-> FALSE, raises |-> FALSE, prompts |-> text.items]
              [] text.kind = "prose_array" ->
                    [retry |-> FALSE, raises |-> FALSE, prompts |-> <<RawArray(text.items)>>]
              [] OTHER -> [retry |-> TRUE, raises |-> FALSE, prompts |-> <<>>]

Min(a, b) == IF a < b THEN a ELSE b

\* Three times n_prompts, which is len(script) / 3 as a float.
NPrompts3(useG4F, script) ==
    IF useG4F THEN Min(StrLen(script), 3 * G4FPromptCap) ELSE StrLen(script)

\* int(n_prompts), the number of prompts the collaborator is asked for.
n_prompts_requested(useG4F, script) == NPrompts3(useG4F, script) \div 3

\* A limit that cuts the list to the number of prompts asked for.
limit_prompts_to_request(useG4F, n3, image_prompts) ==
    IF 3 * Len(image_prompts) > n3 THEN SubSeq(image_prompts, 1, n3 \div 3)
    ELSE image_prompts

limit_prompts(useG4F, n3, image_prompts) ==
    IF useG4F THEN SubSeq(image_prompts, 1, Min(Len(image_prompts), G4FPromptKeep))
    ELSE IF 3 * Len(image_prompts) > n3 THEN SubSeq(image_prompts, 1, n3 \div 3)
    ELSE image_prompts

generate_prompts(c, completion) ==
    LET parsed == parse_image_prompts(completion)
        n3 == NPrompts3(c.k.useG4F, c.k.v.script[1])
        image_prompts == limit_prompts(c.k.useG4F, n3, parsed.prompts)
    IN IF parsed.raises THEN Raise(c)
       ELSE IF parsed.retry
       THEN Goto(Deeper(c), "at_prompts")
       ELSE Goto(Unwind(Checkpoint([c EXCEPT !.k.v.image_prompts = Some(image_prompts)],
                                   "image_prompts", [prompts |-> image_prompts])),
                 "at_images")

\* ---- images
ImageOutcomes == {"fail", "ok", "corrupt"}

\* generate_image_g4f after a download: self.images and the stored list both
\* get the path; after a resume they are one and the same list object.
generate_image_g4f(c, path) ==
    LET images == Append(c.k.v.images, path)
        current_paths ==
            IF c.k.aliased THEN Append(images, path)
            ELSE IF "images" \in DOMAIN Data(c) /\ "paths" \in DOMAIN Data(c)["images"]
            THEN Append(Data(c)["images"].paths, path)
            ELSE <<path>>
        own == IF c.k.aliased THEN current_paths ELSE images
    IN Checkpoint([c EXCEPT !.k.v.images = own], "images", [paths |-> current_paths])

\* generate_image_cloudflare with an image in the response: only self.images
\* gets the path (and with it the stored list, when it is the same object).
generate_image_cloudflare(c, path) ==
    LET images == Append(c.k.v.images, path)
        c1 == [c EXCEPT !.k.v.images = images]
    IN IF c.k.aliased
       THEN [c1 EXCEPT !.st = Put(c.st, c.k.sid,
                 Put(c.st[c.k.sid], "data",
                     Put(Data(c), "images", Put(Data(c)["images"], "paths", images))))]
       ELSE c1

generate_image(c, outcome, path) ==
    IF outcome = "fail" THEN c
    ELSE IF c.k.useG4F THEN generate_image_g4f(c, path)
    ELSE generate_image_cloudflare(c, path)

\* generate_video, "for prompt in self.image_prompts": on to the next prompt,
\* or to the save after the loop.
NextPrompt(c) ==
    IF c.k.idx < Len(c.k.v.image_prompts[1])
    THEN [c EXCEPT !.k.idx = c.k.idx + 1, !.pc = "images"]
    ELSE FinishImages([c EXCEPT !.k.idx = 0])

\* ---- narration
\* Video.generate_script_to_speech from tts_instance.synthesize on.
generate_script_to_speech(c, outcome, path) ==
    IF outcome = "error" THEN Raise(c)
    ELSE Goto(Checkpoint([c EXCEPT !.k.v.tts_path = Some(path)], "tts", [path |-> path]),
              "at_combine")

SeqRange(q) == {q[i] : i \in 1..Len(q)}

\* ---- assembly
\* What an assembly meets: fault names the call that raises ("none" when none
\* does), duration is the length of the narration, bad says which of the
\* valid images raise while they are cropped and resized, song is what
\* choose_random_song finds, and short says whether len(valid_images) times
\* req_dur adds up, in floating point, to just less than the duration.
AssemblyFaults == {"audio", "subtitles", "render", "copy"}

AssemblyEnvs ==
    {[fault |-> f, duration |-> 2, bad |-> "none", song |-> "ok", short |-> FALSE] :
        f \in AssemblyFaults}
    \cup {[fault |-> "none", duration |-> 0, bad |-> "none", song |-> "ok", short |-> FALSE]}
    \cup {[fault |-> "none", duration |-> 2, bad |-> b, song |-> "ok", short |-> sh] :
            b \in {"none", "first", "all"}, sh \in BOOLEAN}
    \cup {[fault |-> "none", duration |-> 2, bad |-> "none", song |-> g, short |-> FALSE] :
            g \in {"none", "invalid"}}

NoClip == [clips |-> 0, shown |-> 0, duration |-> 0, audio |-> {}, copied |-> FALSE]

\* "while tot_dur < max_duration", one pass over valid_images for each call.
\* Every clip lasts req_dur = max_duration / n, so tot_dur is clips * req_dur:
\* it is less than max_duration while clips < n, and with clips = n when the
\* floating-point sum falls short.  Of the n images of a pass, good make a clip.
RECURSIVE build_clips(_, _, _, _, _)
build_clips(clips, n, good, duration, short) ==
    IF duration > 0 /\ (clips < n \/ (short /\ clips = n))
    THEN build_clips(clips + good, n, good, duration, short)
    ELSE clips

\* A sequence built by one pass over the images, whatever the duration reached.
combine_single_pass(c, loadable, env, path) ==
    LET valid_images == SelectSeq(c.k.v.images, LAMBDA image_path : image_path \in loadable)
        n == Len(valid_images)
        bad == CASE env.bad = "first" -> {valid_images[1]}
                 [] env.bad = "all" -> SeqRange(valid_images)
                 [] OTHER -> {}
        good == Len(SelectSeq(valid_images, LAMBDA image_path : image_path \notin bad))
        audio == IF env.song = "ok" THEN {"narration", "music"} ELSE {"narration"}
    IN IF env.fault = "audio" \/ c.k.v.tts_path[1] \notin loadable THEN Raise(c)
       ELSE IF valid_images = <<>>
       THEN Return(StoreCall(c, mark_failed(c.st, c.k.sid, MsgNoImages, now)), None)
       ELSE IF good = 0
       THEN Return(StoreCall(c, mark_failed(c.st, c.k.sid, MsgNoClips, now)), None)
       ELSE IF env.fault \in {"subtitles", "render", "copy"} THEN Raise(c)
       ELSE Return(StoreCall([c EXCEPT !.k.clip = [clips |-> good, shown |-> good * env.duration,
                                                  duration |-> env.duration,
                                                  audio |-> audio, copied |-> TRUE]],
                             mark_completed(c.st, c.k.sid, path, now)),
                   Some(path))

\* An assembly that goes on without checking that any image is valid.
combine_unfiltered(c, loadable, env, path) ==
    IF env.fault # "none" \/ c.k.v.tts_path[1] \notin loadable THEN Raise(c)
    ELSE Return(StoreCall([c EXCEPT !.k.clip = [clips |-> Len(c.k.v.images),
                                               shown |-> Len(c.k.v.images) * env.duration,
                                               duration |-> env.duration,
                                               audio |-> {"narration"}, copied |-> TRUE]],
                          mark_completed(c.st, c.k.sid, path, now)),
                Some(path))

\* An assembly that cannot do without its background track.
combine_needing_song(c, loadable, env, path) ==
    LET valid_images == SelectSeq(c.k.v.images, LAMBDA image_path : image_path \in loadable)
    IN IF env.fault # "none" \/ env.song # "ok" \/ c.k.v.tts_path[1] \notin loadable
       THEN Raise(c)
       ELSE IF valid_images = <<>>
       THEN Return(StoreCall(c, mark_failed(c.st, c.k.sid, MsgNoImages, now)), None)
       ELSE Return(StoreCall([c EXCEPT !.k.clip = [clips |-> Len(valid_images),
                                                  shown |-> Len(valid_images) * env.duration,
                                                  duration |-> env.duration,
                                                  audio |-> {"narration", "music"},
                                                  copied |-> TRUE]],
                             mark_completed(c.st, c.k.sid, path, now)),
                   Some(path))

\* An assembly that marks the run completed whether or not the video could be
\* written and copied.
combine_completing_early(c, loadable, env, path) ==
    LET valid_images == SelectSeq(c.k.v.images, LAMBDA image_path : image_path \in loadable)
        done == StoreCall(c, mark_completed(c.st, c.k.sid, path, now))
    IN IF env.fault \in {"audio", "subtitles"} \/ c.k.v.tts_path[1] \notin loadable
       THEN Raise(c)
       ELSE IF valid_images = <<>>
       THEN Return(StoreCall(c, mark_failed(c.st, c.k.sid, MsgNoImages, now)), None)
       ELSE Return([done EXCEPT !.k.clip = [clips |-> Len(valid_images),
                                           shown |-> Len(valid_images) * env.duration,
                                           duration |-> env.duration,
                                           audio |-> {"narration"},
                                           copied |-> env.fault = "none"]],
                   Some(path))

\* An assembly that gives up on a run without valid images and leaves its
\* status as it was.
combine_returning_silently(c, loadable, env, path) ==
    LET valid_images == SelectSeq(c.k.v.images, LAMBDA image_path : image_path \in loadable)
        n == Len(valid_images)
        bad == CASE env.bad = "first" -> {valid_images[1]}
                 [] env.bad = "all" -> SeqRange(valid_images)
                 [] OTHER -> {}
        good == Len(SelectSeq(valid_images, LAMBDA image_path : image_path \notin bad))
        clips == build_clips(0, n, good, env.duration, env.short)
        audio == IF env.song = "ok" THEN {"narration", "music"} ELSE {"narration"}
    IN IF env.fault = "audio" \/ c.k.v.tts_path[1] \notin loadable THEN Raise(c)
       ELSE IF valid_images = <<>>
       THEN Return(c, None)
       ELSE IF env.duration > 0 /\ good = 0 THEN Goto(c, "hung")
       ELSE IF clips = 0
       THEN Return(StoreCall(c, mark_failed(c.st, c.k.sid, MsgNoClips, now)), None)
       ELSE IF env.fault \in {"subtitles", "render", "copy"} THEN Raise(c)
       ELSE Return(StoreCall([c EXCEPT !.k.clip = [clips |-> clips,
                                                  shown |-> clips * env.duration,
                                                  duration |-> env.duration,
                                                  audio |-> audio, copied |-> TRUE]],
                             mark_completed(c.st, c.k.sid, path, now)),
                   Some(path))

\* Video.combine.  shown is the accumulated tot_dur and duration the length
\* final_clip is set to, both in units of req_dur / duration, so that shown
\* covers the narration when shown >= n * duration.  When no image of a pass
\* makes a clip, tot_dur stays where it is and the while loop never ends.
combine(c, loadable, env, path) ==
    LET valid_images == SelectSeq(c.k.v.images, LAMBDA image_path : image_path \in loadable)
        n == Len(valid_images)
        bad == CASE env.bad = "first" -> {valid_images[1]}
                 [] env.bad = "all" -> SeqRange(valid_images)
                 [] OTHER -> {}
        good == Len(SelectSeq(valid_images, LAMBDA image_path : image_path \notin bad))
        clips == build_clips(0, n, good, env.duration, env.short)
        audio == IF env.song = "ok" THEN {"narration", "music"} ELSE {"narration"}
    IN IF env.fault = "audio" \/ c.k.v.tts_path[1] \notin loadable THEN Raise(c)
       ELSE IF valid_images = <<>>
       THEN Return(StoreCall(c, mark_failed(c.st, c.k.sid, MsgNoImages, now)), None)
       ELSE IF env.duration > 0 /\ good = 0 THEN Goto(c, "hung")
       ELSE IF clips = 0
       THEN Return(StoreCall(c, mark_failed(c.st, c.k.sid, MsgNoClips, now)), None)
       ELSE IF env.fault \in {"subtitles", "render", "copy"} THEN Raise(c)
       ELSE Return(StoreCall([c EXCEPT !.k.clip = [clips |-> clips,
                                                  shown |-> clips * env.duration,
                                                  duration |-> env.duration,
                                                  audio |-> audio, copied |-> TRUE]],
                             mark_completed(c.st, c.k.sid, path, now)),
                   Some(path))

\* ---- Video.__init__ and the head of generate_video
\* Video.__init__: a fresh object, then the fields a resumed session holds.
VideoInit(st, session_id, resumed, useG4F) ==
    LET data == IF resumed /\ session_id \in DOMAIN st THEN st[session_id].data ELSE Empty
        v == [subject |-> IF "topic" \in DOMAIN data THEN data["topic"].subject ELSE <<>>,
              script |-> IF "script" \in DOMAIN data THEN data["script"].content ELSE <<>>,
              metadata |-> IF "metadata" \in DOMAIN data THEN Some(data["metadata"]) ELSE <<>>,
              image_prompts |-> IF "image_prompts" \in DOMAIN data
                                THEN Some(data["image_prompts"].prompts) ELSE <<>>,
              images |-> IF "images" \in DOMAIN data THEN data["images"].paths ELSE <<>>,
              tts_path |-> IF "tts" \in DOMAIN data THEN Some(data["tts"].path) ELSE <<>>]
    IN [sid |-> session_id, useG4F |-> useG4F, v |-> v, has_all_images |-> FALSE,
        aliased |-> "images" \in DOMAIN data, depth |-> 0, idx |-> 0,
        title |-> None, clip |-> NoClip, ret |-> None,
        resumed |-> resumed, force_new |-> FALSE, clean |-> FALSE]

\* generate_video: decide has_all_images, then call generate_topic.
generate_video(c) ==
    IF "images" \in DOMAIN Data(c)
    THEN LET image_paths == Get(Data(c)["images"], "paths", <<>>)
         IN IF c.k.v.image_prompts = <<>> THEN Raise(c)
            ELSE IF Len(image_paths) = Len(c.k.v.image_prompts[1])
            THEN Goto([c EXCEPT !.k.has_all_images = TRUE,
                                !.k.v.images = image_paths,
                                !.k.aliased = TRUE],
                      "at_topic")
            ELSE Goto(c, "at_topic")
    ELSE Goto(c, "at_topic")

\* ---- cron.handle_video_generation up to generate_video
IdleCtl == VideoInit(Empty, 0, FALSE, TRUE)

\* VideoState(): the document is loaded and migrated, and saved if the
\* migration changed it.
VideoState(c) == StoreCall(c, migrate_sessions(load_state(c.dk), now))

\* state_manager = VideoState()
CronOpen(c) == Goto(VideoState(c), "cron_clean")

\* "if clean: state_manager.cleanup_incomplete_sessions()"
CronClean(c) ==
    Goto(IF c.k.clean THEN StoreCall(c, cleanup_incomplete_sessions(c.st)) ELSE c,
         "cron_select")

\* "if not force_new: session = get_latest_incomplete_session(state_manager)";
\* the TypeError of max() leaves handle_video_generation, and the process is
\* over.
CronSelect(c) ==
    LET found == IF c.k.force_new THEN [raises |-> FALSE, session |-> {}]
                 ELSE get_latest_incomplete_session(c.st)
    IN IF found.raises THEN [c EXCEPT !.pc = "idle", !.st = Empty, !.k = IdleCtl]
       ELSE IF found.session = {} THEN Goto(c, "video_init")
       ELSE Goto([c EXCEPT !.k.sid = CHOOSE i \in found.session : TRUE,
                           !.k.resumed = TRUE],
                 "video_init")

\* Video.__init__, "self.state_manager = VideoState()": a store object of its
\* own, loaded from the document.
VideoOpen(c) == Goto(VideoState(c), "video_session")

\* Video.__init__ from "self.session_id = session_id or
\* self.state_manager.create_video_session(niche, language)" on.
VideoSession(c) ==
    LET session_id == IF c.k.resumed THEN c.k.sid ELSE nextId + 1
        c1 == IF c.k.resumed THEN c
              ELSE StoreCall(c, create_video_session(c.st, session_id, "Science", "English", now))
        k == VideoInit(c1.st, session_id, c.k.resumed, TRUE)
    IN [c1 EXCEPT !.k = k, !.pc = "generate_video",
                  !.snap = Some(IF session_id \in DOMAIN c1.st THEN c1.st[session_id].data
                                ELSE Empty)]

\* The code of the job from one label to the next: the head of the job, then
\* the body of generate_video, where the stage function that is next in line
\* runs up to its collaborator call, or hands on to the one after it.
Advance(c) ==
    CASE c.pc = "cron" -> CronOpen(c)
      [] c.pc = "cron_clean" -> CronClean(c)
      [] c.pc = "cron_select" -> CronSelect(c)
      [] c.pc = "video_init" -> VideoOpen(c)
      [] c.pc = "video_session" -> VideoSession(c)
      [] c.pc = "generate_video" -> generate_video(c)
      [] c.pc = "at_topic" -> EnterTopic(c)
      [] c.pc = "at_script" -> EnterScript(c)
      [] c.pc = "at_metadata" -> EnterMetadata(c)
      [] c.pc = "at_prompts" -> EnterPrompts(c)
      [] c.pc = "at_images" -> EnterImages(c)
      [] c.pc = "next_prompt" -> NextPrompt(c)
      [] c.pc = "at_tts" -> EnterTts(c)
      [] c.pc = "at_combine" -> EnterCombine(c)
      [] OTHER -> c

Labels ==
    {"cron", "cron_clean", "cron_select", "video_init", "video_session", "generate_video",
     "at_topic", "at_script", "at_metadata", "at_prompts", "at_images", "next_prompt",
     "at_tts", "at_combine"}

\* ------------------------------------------------ controller steps (actions)

NoObs == [called |-> {}, order |-> <<>>, exhausted |-> {}, snap |-> Empty,
          resumed |-> FALSE, heard |-> [call |-> "none", value |-> None]]

Ctx == [st |-> mem, dk |-> disk, k |-> ctl, pc |-> pc, saves |-> 0, snap |-> None]

Commit(c) ==
    /\ mem' = c.st
    /\ disk' = c.dk
    /\ ctl' = c.k
    /\ pc' = c.pc

\* The job runs on from label to label until it calls a collaborator or is
\* over, and no further than just before the second save of the step: every
\* step holds one rewrite of the document at most, so that the process can
\* die between any two of them.
Run(c, Then(_)) ==
    \E c0 \in {c} :
    \E n1 \in {Advance(c0)} : \E c1 \in {IF n1.saves > 1 THEN c0 ELSE n1} :
    \E n2 \in {Advance(c1)} : \E c2 \in {IF n2.saves > 1 THEN c1 ELSE n2} :
    \E n3 \in {Advance(c2)} : \E c3 \in {IF n3.saves > 1 THEN c2 ELSE n3} :
    \E n4 \in {Advance(c3)} : \E c4 \in {IF n4.saves > 1 THEN c3 ELSE n4} :
    \E n5 \in {Advance(c4)} : \E c5 \in {IF n5.saves > 1 THEN c4 ELSE n5} :
    \E n6 \in {Advance(c5)} : \E c6 \in {IF n6.saves > 1 THEN c5 ELSE n6} :
    \E n7 \in {Advance(c6)} : \E c7 \in {IF n7.saves > 1 THEN c6 ELSE n7} :
    \E n8 \in {Advance(c7)} : \E c8 \in {IF n8.saves > 1 THEN c7 ELSE n8} :
    \E n9 \in {Advance(c8)} : \E c9 \in {IF n9.saves > 1 THEN c8 ELSE n9} :
    \E n10 \in {Advance(c9)} : \E c10 \in {IF n10.saves > 1 THEN c9 ELSE n10} :
    \E n11 \in {Advance(c10)} : \E c11 \in {IF n11.saves > 1 THEN c10 ELSE n11} :
    \E n12 \in {Advance(c11)} : \E c12 \in {IF n12.saves > 1 THEN c11 ELSE n12} :
    \E n13 \in {Advance(c12)} : \E c13 \in {IF n13.saves > 1 THEN c12 ELSE n13} :
        Then(c13)

RunOn(c) == Run(c, Commit)

\* A step that may enter generate_video: the observation starts anew there,
\* and a session that was created took the next identifier.
Begin(c, seen) ==
    /\ Commit(c)
    /\ obs' = IF c.snap = None THEN seen
              ELSE [NoObs EXCEPT !.snap = c.snap[1], !.resumed = c.k.resumed]
    /\ nextId' = IF c.k.sid > nextId THEN c.k.sid ELSE nextId
    /\ nextId' > nextId => Cardinality(DOMAIN c.st) <= MaxSessions

\* The collaborator of a stage is invoked; answered says whether it gave a
\* result, and heard keeps what the call (named as pc names it) returned.
Invoke(stage, answered, value) ==
    obs' = [obs EXCEPT !.called = @ \cup {stage},
                       !.order = IF stage \in SeqRange(@) THEN @ ELSE Append(@, stage),
                       !.exhausted = IF answered THEN @ ELSE @ \cup {stage},
                       !.heard = [call |-> pc, value |-> value]]

Running == pc \notin {"idle", "done"}

\* cron.handle_video_generation is called.  Once the collaborators are healthy
\* the job is always run as a plain resume.
Start(force_new, clean) ==
    /\ ~Running
    /\ healthy \/ invs < MaxInvocations
    /\ healthy => ~force_new /\ ~clean
    /\ Run([st |-> Empty, dk |-> disk,
            k |-> [IdleCtl EXCEPT !.force_new = force_new, !.clean = clean],
            pc |-> "cron", saves |-> 0, snap |-> None],
           LAMBDA c : Begin(c, NoObs))
    /\ invs' = Min(invs + 1, MaxInvocations)
    /\ UNCHANGED <<up, peer, sync, now, nops, last, valid, videos, nextFile, healthy>>

\* The job goes on from the label a step stopped at, its next save included.
Continue ==
    /\ pc \in Labels
    /\ Run(Ctx, LAMBDA c : Begin(c, obs))
    /\ UNCHANGED <<up, peer, sync, now, nops, last, valid, videos, nextFile, invs, healthy>>

Accepted(responses) == IF healthy THEN responses \ {None} ELSE responses

TopicStep ==
    /\ pc = "topic"
    /\ \E completion \in Accepted(TopicResponses) :
        /\ RunOn(generate_topic(Ctx, completion))
        /\ Invoke("topic", completion # None, completion)
    /\ UNCHANGED <<up, peer, sync, now, nextId, nops, last, valid, videos, nextFile, invs, healthy>>

ScriptAccepted(response) ==
    /\ response # None
    /\ RemoveStars(response[1]) # <<>>
    /\ StrLen(RemoveStars(response[1])) <= ScriptLimit

ScriptStep ==
    /\ pc = "script"
    /\ \E response \in {r \in ScriptResponses : healthy => ScriptAccepted(r)} :
        /\ RunOn(generate_script(Ctx, response))
        /\ ctl'.depth < MaxDepth
        /\ Invoke("script", response # None, response)
    /\ UNCHANGED <<up, peer, sync, now, nextId, nops, last, valid, videos, nextFile, invs, healthy>>

TitleAccepted(title) == title # None /\ StrLen(title[1]) <= TitleLimit

MetadataStep ==
    /\ pc = "metadata"
    /\ \E title \in {r \in TitleResponses : healthy => TitleAccepted(r)} :
        /\ RunOn(generate_metadata_title(Ctx, title))
        /\ ctl'.depth < MaxDepth
        /\ Invoke("metadata", title # None, title)
    /\ UNCHANGED <<up, peer, sync, now, nextId, nops, last, valid, videos, nextFile, invs, healthy>>

DescriptionStep ==
    /\ pc = "description"
    /\ \E description \in Accepted(DescriptionResponses) :
        /\ RunOn(generate_metadata_description(Ctx, description))
        /\ Invoke("metadata", description # None, description)
    /\ UNCHANGED <<up, peer, sync, now, nextId, nops, last, valid, videos, nextFile, invs, healthy>>

PromptsAccepted(completion) ==
    /\ ~parse_image_prompts(completion).retry
    /\ ~parse_image_prompts(completion).raises

\* The completions the whole pipeline is run with: one for every way
\* generate_prompts can go (no completion, a list, an empty list, a bracketed
\* array inside prose, a text json.loads raises on), the lists of one prompt.
\* The assembly is checked in its own specification with every shape of
\* completion and with lists of two.
PipelinePrompts ==
    {None,
     Completion("array", <<P("a")>>),
     Completion("array", <<>>),
     Completion("prose_array", <<P("a"), P("b"), P("c")>>),
     Completion("prose_mention", <<>>)}

PromptsStep(responses) ==
    /\ pc = "image_prompts"
    /\ \E completion \in {r \in responses : healthy => PromptsAccepted(r)} :
        /\ RunOn(generate_prompts(Ctx, completion))
        /\ ctl'.depth < MaxDepth
        /\ Invoke("image_prompts", completion # None, completion)
    /\ UNCHANGED <<up, peer, sync, now, nextId, nops, last, valid, videos, nextFile, invs, healthy>>

\* The downloads the whole pipeline is run with; the assembly is checked in
\* its own specification with a file that does not open as well.
PipelineImages == {"fail", "ok"}

ImageStep(outcomes) ==
    /\ pc = "images"
    /\ nextFile < MaxFiles
    /\ \E outcome \in {o \in outcomes : healthy => o = "ok"} :
        /\ RunOn(Goto(generate_image(Ctx, outcome, nextFile + 1), "next_prompt"))
        /\ nextFile' = IF outcome = "fail" THEN nextFile ELSE nextFile + 1
        /\ valid' = IF outcome = "ok" THEN valid \cup {nextFile + 1} ELSE valid
        /\ Invoke("images", outcome # "fail", outcome)
    /\ UNCHANGED <<up, peer, sync, now, nextId, nops, last, videos, invs, healthy>>

TtsStep ==
    /\ pc = "tts"
    /\ nextFile < MaxFiles
    /\ \E outcome \in {o \in {"ok", "error"} : healthy => o = "ok"} :
        /\ RunOn(generate_script_to_speech(Ctx, outcome, nextFile + 1))
        /\ nextFile' = IF outcome = "ok" THEN nextFile + 1 ELSE nextFile
        /\ valid' = IF outcome = "ok" THEN valid \cup {nextFile + 1} ELSE valid
        /\ Invoke("tts", outcome = "ok", outcome)
    /\ UNCHANGED <<up, peer, sync, now, nextId, nops, last, videos, invs, healthy>>

\* What a healthy environment gives the assembly.
Sound(env) == env.fault = "none" /\ env.duration > 0 /\ env.bad = "none" /\ ~env.short

\* The assembly goes through with all it needs, or raises while it renders,
\* or makes no clip of a narration without length: what the whole pipeline is
\* checked against.  The assembly is checked against all of AssemblyEnvs on
\* its own, below.
PipelineEnvs ==
    {env \in AssemblyEnvs :
        /\ env.fault \in {"none", "render"}
        /\ env.bad = "none" /\ ~env.short /\ env.song = "ok"}

Assemble(envs) ==
    /\ pc = "assemble"
    /\ nextFile < MaxFiles
    /\ \E env \in {e \in envs : healthy => Sound(e)} :
        \E c \in {combine(Ctx, valid, env, nextFile + 1)} :
           /\ Commit(c)
           /\ nextFile' = IF c.k.ret # None THEN nextFile + 1 ELSE nextFile
           /\ videos' = IF c.k.clip.copied THEN videos \cup {nextFile + 1} ELSE videos
           /\ Invoke("assemble", env.fault = "none", Put(env, "loadable", valid))
    /\ UNCHANGED <<up, peer, sync, now, nextId, nops, last, valid, invs, healthy>>

\* The assembly that is about to run has a narration and an image to open.
CanRender ==
    /\ ctl.v.tts_path # <<>>
    /\ ctl.v.tts_path[1] \in valid
    /\ \E i \in 1..Len(ctl.v.images) : ctl.v.images[i] \in valid

\* The files that no run lists are not told apart: one name stands for them.
Unlisted == 0

\* The process dies between two calls or between two saves (a step ends
\* before its second save), or is killed while the assembly hangs, or is
\* killed inside the step it was about to make: after the step wrote its
\* file (the image, the narration, the copy of the video in videos/) and before
\* the store was told (written), or while _save_state was rewriting the
\* document, which open(..., 'w') had truncated (torn).  What the process held
\* in memory is gone.
Crash ==
    /\ Running
    /\ ~healthy \/ pc = "hung"
    /\ \E written, torn \in BOOLEAN :
        /\ written => \/ pc \in {"images", "tts"} /\ Unlisted \notin valid
                      \/ pc = "assemble" /\ CanRender /\ Unlisted \notin videos
        /\ torn => pc # "hung"
        /\ valid' = IF written /\ pc \in {"images", "tts"} THEN valid \cup {Unlisted} ELSE valid
        /\ videos' = IF written /\ pc = "assemble" THEN videos \cup {Unlisted} ELSE videos
        /\ nextFile' = nextFile
        /\ disk' = IF torn THEN TruncatedDoc ELSE disk
    /\ pc' = "idle"
    /\ ctl' = IdleCtl
    /\ mem' = Empty
    /\ obs' = NoObs
    /\ UNCHANGED <<up, peer, sync, now, nextId, nops, last, invs, healthy>>

\* utils.rem_temp_files, called between two invocations of the job: every
\* file of .mp that is neither .json nor .mp4 is removed, the images and the
\* narrations among them.  (The videos are copied to videos/ and stay.)
RemTempFiles ==
    /\ ~Running
    /\ healthy \/ invs < MaxInvocations
    /\ valid # {}
    /\ valid' = {}
    /\ UNCHANGED <<disk, mem, up, peer, sync, now, nextId, nops, last, pc, ctl, videos, nextFile, invs, healthy, obs>>

\* One whole run writes an image per prompt, the narration and the video.
PromptsAtMost ==
    CHOOSE n \in 0..G4FPromptKeep :
        /\ \A r \in PromptResponses : Len(parse_image_prompts(r).prompts) <= n
        /\ \E r \in PromptResponses : Len(parse_image_prompts(r).prompts) = n

FilesPerRun == PromptsAtMost + 2

\* From here on every collaborator call succeeds with acceptable output.  The
\* file names still to be handed out must suffice for one whole run.

BecomeHealthy ==
    /\ ~healthy
    /\ nextFile + FilesPerRun <= MaxFiles
    /\ healthy' = TRUE
    /\ UNCHANGED <<disk, mem, up, peer, sync, now, nextId, nops, last, pc, ctl, valid, videos, nextFile, invs, obs>>

\* ------------------------------------------------ store operations (actions)
Ids == 1..MaxRuns

StoreSteps == {"topic", "script"}

\* What the stage function of a step saves: {"subject": ...}, {"content": ...}.
StorePayloads(step) ==
    IF step = "topic" THEN {[subject |-> Some(Txt("a", 1))]}
    ELSE {[content |-> Some(Txt("b", 2))]}

VideoPaths == {1, 2}

ErrorMessages == {"Failed to generate topic", "Failed to generate script"}

DaysOld == {0, 1}

\* Process p is in none of its saves: VideoState.__init__ has returned and
\* no _save_state of p is between its open(..., 'w') and its dump.
Constructed(p) == sync[p] = "ready"

\* The dump of a is shorter than the dump of b whatever the texts are: a holds
\* some of the runs of b, as b holds them, and nothing else.
Shorter(a, b) == a # b /\ DOMAIN a \subseteq DOMAIN b /\ \A i \in DOMAIN a : a[i] = b[i]

\* json.dump of _state st into the file as it is by now, from the start of the
\* file.  Nothing was written since the file was truncated: the document is
\* st.  The other process wrote since: a dump that is not shorter than what
\* the file holds replaces it, a shorter one leaves the tail of the other
\* text behind it and the document does not parse; where the runs do not tell
\* which text is the longer one, either can be the case.
Landed(st) ==
    IF sync.empty THEN {Doc(st)}
    ELSE IF disk.valid /\ (st = disk.runs \/ Shorter(disk.runs, st)) THEN {Doc(st)}
    ELSE IF disk.valid /\ Shorter(st, disk.runs) THEN {TruncatedDoc}
    ELSE {Doc(st), TruncatedDoc}

\* One call of a store method: the in-memory update and, when the method saves,
\* the rewrite of the document with outcome io.
Apply(res, io, rec) ==
    /\ up
    /\ Constructed("main")
    /\ nops < MaxOps
    /\ nops' = nops + 1
    /\ res.save \/ io = "ok"
    /\ mem' = IF io \in Crashes THEN Empty ELSE res.state
    /\ disk' = Persist(res, disk, io)
    /\ sync' = IF io = "opened" THEN [sync EXCEPT !.main = "opened", !.empty = TRUE] ELSE sync
    /\ up' = (io \notin Crashes)
    /\ last' = Put([rec EXCEPT !.io = io], "raised", res.save /\ save_state_raises(io))

Create(io) ==
    /\ nextId < MaxRuns
    /\ nextId' = nextId + 1
    /\ Apply(create_video_session(mem, nextId + 1, "Science", "English", now), io,
             [op |-> "create", id |-> nextId + 1, io |-> io])
    /\ UNCHANGED <<now, pipeVars>>

SaveStep(io) ==
    \E i \in Ids, step \in StoreSteps : \E data \in StorePayloads(step) :
        /\ i \in DOMAIN mem => Len(mem[i].steps_completed) < MaxSteps
        /\ Apply(save_step_result(mem, i, step, data, now), io,
                 [op |-> "save_step", id |-> i, step |-> step, data |-> data, io |-> io])
        /\ UNCHANGED <<now, nextId, pipeVars>>

MarkCompleted(io) ==
    \E i \in Ids, video_path \in VideoPaths :
        /\ Apply(mark_completed(mem, i, video_path, now), io,
                 [op |-> "mark_completed", id |-> i, video_path |-> video_path, io |-> io])
        /\ UNCHANGED <<now, nextId, pipeVars>>

MarkFailed(io) ==
    \E i \in Ids, error_message \in ErrorMessages :
        /\ Apply(mark_failed(mem, i, error_message, now), io,
                 [op |-> "mark_failed", id |-> i, error |-> error_message, io |-> io])
        /\ UNCHANGED <<now, nextId, pipeVars>>

CleanupCompleted(io) ==
    \E days_old \in DaysOld :
        /\ Apply(cleanup_completed_sessions(mem, days_old, now), io,
                 [op |-> "cleanup_completed", days_old |-> days_old, io |-> io])
        /\ UNCHANGED <<now, nextId, pipeVars>>

CleanupIncomplete(io) ==
    /\ Apply(cleanup_incomplete_sessions(mem), io, [op |-> "cleanup_incomplete", io |-> io])
    /\ UNCHANGED <<now, nextId, pipeVars>>

\* get_incomplete_sessions: a read, nothing is saved.
ListIncomplete(io) ==
    /\ Apply([state |-> mem, save |-> FALSE], io,
             [op |-> "list_incomplete", result |-> get_incomplete_sessions(mem), io |-> io])
    /\ UNCHANGED <<now, nextId, pipeVars>>

\* VideoState.__init__ with the document present: load it and migrate it.
Reopen(io) ==
    LET res == migrate_sessions(load_state(disk), now)
    IN /\ res.save \/ io = "ok"
       /\ mem' = IF io \in Crashes THEN Empty ELSE res.state
       /\ disk' = Persist(res, disk, io)
       /\ up' = (io \notin Crashes)
       /\ last' = [op |-> "open", io |-> io, loaded |-> disk.valid,
                   raised |-> load_state_raises(disk) \/ (res.save /\ save_state_raises(io))]
       /\ UNCHANGED <<sync, now, nextId, nops, pipeVars>>

Tick ==
    /\ now < MaxClock
    /\ now' = now + 1
    /\ UNCHANGED <<disk, mem, up, peer, sync, nextId, nops, last, pc, ctl, valid, videos, nextFile, invs, healthy, obs>>

\* VideoState.__init__ in a fresh directory: _state = {} is saved.
Init ==
    /\ disk = Doc(Empty)
    /\ mem = Empty
    /\ up = TRUE
    /\ peer = Empty
    /\ sync = [main |-> "ready", peer |-> "ready", empty |-> FALSE]
    /\ now = 0
    /\ nextId = 0
    /\ nops = 0
    /\ pc = "idle"
    /\ ctl = IdleCtl
    /\ valid = {}
    /\ videos = {}
    /\ nextFile = 0
    /\ invs = 0
    /\ healthy = FALSE
    /\ obs = NoObs
    /\ last = [op |-> "init", io |-> "ok", raised |-> FALSE]

Next ==
    \/ Tick
    \/ Create("ok")
    \/ SaveStep("ok")
    \/ MarkCompleted("ok")
    \/ MarkFailed("ok")
    \/ CleanupCompleted("ok")
    \/ CleanupIncomplete("ok")
    \/ ListIncomplete("ok")
    \/ Reopen("ok")

Spec == Init /\ [][Next]_vars

\* The run selector and the controller, one process at a time.
PipeNext ==
    \/ \E force_new, clean \in BOOLEAN : Start(force_new, clean)
    \/ TopicStep
    \/ ScriptStep
    \/ MetadataStep
    \/ DescriptionStep
    \/ PromptsStep(PipelinePrompts)
    \/ ImageStep(PipelineImages)
    \/ TtsStep
    \/ Assemble(PipelineEnvs)
    \/ Continue
    \/ Crash
    \/ RemTempFiles

PipeSpec == Init /\ [][PipeNext]_vars

\* The assembly in every environment, at the end of invocations whose earlier
\* collaborators all give acceptable output (images may still fail or be
\* unreadable, and the process may die).
AssemblyNext ==
    \/ Start(FALSE, FALSE)
    \/ TopicStep /\ pc' \notin {"done", "at_script"}
    \/ ScriptStep /\ pc' # "done"
    \/ MetadataStep /\ pc' # "done"
    \/ DescriptionStep /\ pc' # "done"
    \/ PromptsStep(PromptResponses) /\ pc' # "done"
    \/ ImageStep(ImageOutcomes)
    \/ TtsStep /\ pc' # "done"
    \/ Assemble(AssemblyEnvs)
    \/ Continue
    \/ Crash
    \/ RemTempFiles

AssemblySpec == Init /\ [][AssemblyNext]_vars

\* The store with a file system that can fail and a process that can die while
\* the document is being rewritten.
FaultNext ==
    \/ Tick
    \/ \E io \in IoOutcomes : Create(io)
    \/ \E io \in IoOutcomes : SaveStep(io)
    \/ \E io \in IoOutcomes : MarkCompleted(io)
    \/ \E io \in IoOutcomes : MarkFailed(io)
    \/ \E io \in IoOutcomes : CleanupCompleted(io)
    \/ \E io \in IoOutcomes : CleanupIncomplete(io)
    \/ \E io \in IoOutcomes : ListIncomplete(io)
    \/ \E io \in IoOutcomes : Reopen(io)

FaultSpec == Init /\ [][FaultNext]_vars

\* The pipeline with collaborators that recover.  A process that is not
\* killed runs on: the steps of an invocation that was started are taken.
\* Whether the job is ever started again is left open.
LiveNext ==
    \/ PipeNext
    \/ BecomeHealthy

RunsOn ==
    \/ TopicStep
    \/ ScriptStep
    \/ MetadataStep
    \/ DescriptionStep
    \/ PromptsStep(PipelinePrompts)
    \/ ImageStep(PipelineImages)
    \/ TtsStep
    \/ Assemble(PipelineEnvs)
    \/ Continue

LiveSpec == Init /\ [][LiveNext]_vars /\ WF_vars(RunsOn)

\* ------------------------------------------- stage arithmetic, input by input
\* The functions below are applied to inputs drawn from small sets; last keeps
\* the call, its arguments and its result.
ScriptLengths == {0, 2, 3, 7, 29, 30, 31, 80}

PromptCounts == {0, 1, 2, 3, 9, 10, 11, 24, 25, 26, 27}

Prompts(m) == [i \in 1..m |-> P("a")]

\* Video.generate_prompts from the script to the list it checkpoints, for a
\* collaborator that returns a JSON array of m prompts.
PromptCount ==
    /\ \E useG4F \in BOOLEAN, n \in ScriptLengths, m \in PromptCounts :
          LET script == Txt("s", n)
              n3 == NPrompts3(useG4F, script)
          IN last' = [op |-> "generate_prompts", io |-> "ok", raised |-> FALSE,
                      useG4F |-> useG4F, script_length |-> StrLen(script), returned |-> m,
                      requested |-> n_prompts_requested(useG4F, script),
                      kept |-> Len(limit_prompts(useG4F, n3, Prompts(m)))]
    /\ UNCHANGED <<disk, mem, up, sync, now, nextId, nops, pipeVars>>

\* ---- aspect normalization
\* round(num / den) of Python for positive integers: to the nearest integer,
\* a tie going to the even one.
RoundHalfEven(num, den) ==
    LET q == num \div den
        r == num % den
    IN IF 2 * r < den THEN q
       ELSE IF 2 * r > den THEN q + 1
       ELSE IF q % 2 = 0 THEN q ELSE q + 1

\* round(clip.w / clip.h, 4) < 0.5625: the quotient rounded to four decimals is
\* 0.5624 or less, that is w / h lies below 0.56245 = 11249 / 20000 (heights
\* stay under 20000, so that w / h is never that value itself).
RatioBelowPortrait(w, h) == 20000 * w < 11249 * h

\* The crop of combine, centred on the image: its width and height.
crop(w, h) ==
    IF RatioBelowPortrait(w, h)
    THEN [bound |-> "height", width |-> w, height |-> RoundHalfEven(16 * w, 9)]
    ELSE [bound |-> "width", width |-> RoundHalfEven(9 * h, 16), height |-> h]

\* clip.resize((1080, 1920))
resize(box) == <<1080, 1920>>

\* Widths and heights of source images: landscape, square, the portrait ratio
\* itself and ratios on either side of it, some of them within 0.00005 of it.
ImageSizes ==
    {<<1920, 1080>>, <<1024, 1024>>, <<1080, 1920>>, <<9, 16>>, <<9, 20>>, <<1080, 2400>>,
     <<1079, 1920>>, <<1081, 1920>>, <<5, 8>>, <<4, 8>>, <<14, 24>>, <<1, 1>>, <<1, 2>>,
     <<707, 1257>>, <<5629, 10008>>, <<5630, 10008>>, <<5625, 10008>>}

\* The build pass of combine brings one image to the canvas.
CropImage ==
    /\ \E size \in ImageSizes :
          LET box == crop(size[1], size[2])
          IN last' = [op |-> "crop", io |-> "ok", raised |-> FALSE,
                      w |-> size[1], h |-> size[2], box |-> box, canvas |-> resize(box)]
    /\ UNCHANGED <<disk, mem, up, sync, now, nextId, nops, pipeVars>>

\* ---- one image acquisition, attempt by attempt
\* What one request to the image backend comes to: an image that is
\* downloaded and written, an answer without an image (no data, a status other
\* than 200, a content type other than image/png), or an exception.
AttemptOutcomes == {"image", "no_image", "raises"}

max_retries == 3

\* generate_image_g4f, "for attempt in range(max_retries)": the attempts made
\* from the given one on, every failure and exception being caught.
RECURSIVE g4f_attempts(_, _)
g4f_attempts(outcomes, attempt) ==
    IF attempt > max_retries THEN [attempts |-> max_retries, result |-> "none"]
    ELSE IF outcomes[attempt] = "image" THEN [attempts |-> attempt, result |-> "path"]
    ELSE g4f_attempts(outcomes, attempt + 1)

\* generate_image_cloudflare: one requests.get outside any try.
cloudflare_attempts(outcomes) ==
    [attempts |-> 1,
     result |-> CASE outcomes[1] = "image" -> "path"
                  [] outcomes[1] = "no_image" -> "none"
                  [] OTHER -> "raised"]

\* generate_image: the backend is chosen by useG4F; the worker needs its URL.
acquire(useG4F, worker_url, outcomes) ==
    IF useG4F THEN g4f_attempts(outcomes, 1)
    ELSE IF worker_url = None THEN [attempts |-> 0, result |-> "none"]
    ELSE cloudflare_attempts(outcomes)

AcquireImage ==
    /\ \E useG4F \in BOOLEAN, worker_url \in {None, Some("url")},
          outcomes \in [1..max_retries -> AttemptOutcomes] :
          LET got == acquire(useG4F, worker_url, outcomes)
          IN last' = [op |-> "generate_image", io |-> "ok", raised |-> got.result = "raised",
                      useG4F |-> useG4F, worker_url |-> worker_url, outcomes |-> outcomes,
                      attempts |-> got.attempts, result |-> got.result]
    /\ UNCHANGED <<disk, mem, up, sync, now, nextId, nops, pipeVars>>

\* ---- text generation, provider by provider
\* What one g4f.ChatCompletion.create call comes to: a text, a response that
\* is None, empty or blank, or an exception.
ProviderOutcomes == {"text", "blank", "raises"}

\* What the providers of one round come to, the first of them first.
RoundOutcomes ==
    {<<"blank", "raises">>, <<"raises", "blank">>, <<"text", "blank">>,
     <<"raises", "text">>, <<"text", "text">>}

\* How many providers get_available_providers lists, round by round.
ProviderCounts == {<<0, 0, 0>>, <<1, 1, 1>>, <<2, 2, 2>>, <<2, 0, 1>>, <<1, 2, 0>>}

llm_max_retries == 3

\* A round that asks every provider, whatever the ones before it answered.
try_providers_all(n, outcomes, attempt, i, calls) ==
    LET asked == calls \o [j \in 1..n |-> <<attempt, j>>]
        texts == {j \in 1..n : outcomes[attempt][j] = "text"}
    IN [response |-> IF texts = {} THEN None
                     ELSE Some(<<attempt, CHOOSE j \in texts : \A k \in texts : j <= k>>),
        calls |-> asked]

\* generate_response, "for provider in providers": the providers of one round
\* from the i-th on; calls is the list of the calls made so far, each named by
\* its round and its provider.
RECURSIVE try_providers(_, _, _, _, _)
try_providers(n, outcomes, attempt, i, calls) ==
    IF i > n THEN [response |-> None, calls |-> calls]
    ELSE IF outcomes[attempt][i] = "text"
    THEN [response |-> Some(<<attempt, i>>), calls |-> Append(calls, <<attempt, i>>)]
    ELSE try_providers(n, outcomes, attempt, i + 1, Append(calls, <<attempt, i>>))

\* generate_response, "for attempt in range(max_retries)": the rounds from the
\* given one on; sleeps lists the rounds that were followed by time.sleep(5),
\* after which the provider list is read again.
RECURSIVE retry_rounds(_, _, _, _, _)
retry_rounds(available, outcomes, attempt, calls, sleeps) ==
    IF attempt > llm_max_retries
    THEN [response |-> None, calls |-> calls, sleeps |-> sleeps, rounds |-> llm_max_retries]
    ELSE LET round == try_providers(available[attempt], outcomes, attempt, 1, calls)
         IN IF round.response # None
            THEN [response |-> round.response, calls |-> round.calls, sleeps |-> sleeps,
                  rounds |-> attempt]
            ELSE retry_rounds(available, outcomes, attempt + 1, round.calls,
                              IF attempt < llm_max_retries THEN Append(sleeps, attempt)
                              ELSE sleeps)

\* generate_response: available[k] is how many providers get_available_providers
\* lists for round k.
generate_response(available, outcomes) ==
    IF available[1] = 0
    THEN [response |-> None, calls |-> <<>>, sleeps |-> <<>>, rounds |-> 0]
    ELSE retry_rounds(available, outcomes, 1, <<>>, <<>>)

GenerateResponse ==
    /\ \E available \in ProviderCounts, outcomes \in [1..llm_max_retries -> RoundOutcomes] :
          LET got == generate_response(available, outcomes)
          IN last' = [op |-> "generate_response", io |-> "ok", raised |-> FALSE,
                      available |-> available, outcomes |-> outcomes,
                      response |-> got.response, calls |-> got.calls,
                      sleeps |-> got.sleeps, rounds |-> got.rounds]
    /\ UNCHANGED <<disk, mem, up, sync, now, nextId, nops, pipeVars>>

\* ---- loading a document written by an older version
\* A run as the current version writes it, and the documents an older version
\* may have left: the same run without some of the fields.
LegacyFields == {"id", "created_at", "status", "steps_completed", "data", "last_updated"}

LegacyStatuses == {"in_progress", "completed"}

CurrentSession(status) ==
    [id |-> 1, niche |-> "Science", language |-> "English", created_at |-> 0,
     status |-> status, steps_completed |-> <<"topic">>,
     data |-> [topic |-> [subject |-> Some(Txt("a", 1))]], last_updated |-> 0]

LegacyDocuments ==
    {[i \in {1} |-> Del(CurrentSession(status), missing)] :
        status \in LegacyStatuses, missing \in SUBSET LegacyFields}

\* VideoState.__init__ twice over the document: load, migrate, save if
\* modified; then the same again on what the first construction left.
MigrateDocument ==
    /\ \E before \in LegacyDocuments :
          LET first == migrate_sessions(load_state(Doc(before)), now + 1)
              left == Persist(first, Doc(before), "ok")
              second == migrate_sessions(load_state(left), now + 2)
          IN last' = [op |-> "migrate", io |-> "ok", raised |-> FALSE,
                      before |-> before, first |-> first, left |-> left,
                      second |-> second,
                      after |-> Persist(second, left, "ok")]
    /\ UNCHANGED <<disk, mem, up, sync, now, nextId, nops, pipeVars>>

CalcNext ==
    \/ PromptCount
    \/ CropImage
    \/ AcquireImage
    \/ GenerateResponse
    \/ MigrateDocument

CalcSpec == Init /\ [][CalcNext]_vars

\* ------------------------------------------- the run selector over the store
\* cron.handle_video_generation from VideoState() to the Video object it hands
\* to generate_video: last keeps the arguments, the store as it was found and
\* the run that was chosen.  The calls generate_video then makes on the store
\* are the store operations above; the selection counts as one of them.
SelectRun(force_new, clean) ==
    /\ up
    /\ nops < MaxOps
    /\ nops' = nops + 1
    /\ \E before \in {load_state(disk)} :
       \E a0 \in {migrate_sessions(before, now)} :
       \E d0 \in {Persist(a0, disk, "ok")} :
       \E a1 \in {IF clean THEN cleanup_incomplete_sessions(a0.state)
                  ELSE [state |-> a0.state, save |-> FALSE]} :
       \E d1 \in {Persist(a1, d0, "ok")} :
       \E found \in {IF force_new THEN [raises |-> FALSE, session |-> {}]
                     ELSE get_latest_incomplete_session(a1.state)} :
       \E b0 \in {migrate_sessions(load_state(d1), now)} :
       \E d2 \in {Persist(b0, d1, "ok")} :
       \E resumed \in {found.session # {}} :
       \E session_id \in (IF resumed THEN found.session ELSE {nextId + 1}) :
       \E b1 \in {IF resumed THEN [state |-> b0.state, save |-> FALSE]
                  ELSE create_video_session(b0.state, session_id, "Science", "English", now)} :
          /\ found.raises \/ resumed \/ nextId < MaxRuns
          /\ nextId' = IF found.raises \/ resumed THEN nextId ELSE nextId + 1
          /\ mem' = IF found.raises THEN Empty ELSE b1.state
          /\ disk' = IF found.raises THEN d1 ELSE Persist(b1, d2, "ok")
          /\ up' = ~found.raises
          /\ last' = [op |-> "select", io |-> "ok", raised |-> found.raises,
                      force_new |-> force_new, clean |-> clean, before |-> before,
                      resumed |-> resumed, id |-> IF found.raises THEN 0 ELSE session_id]
    /\ UNCHANGED <<sync, now, pipeVars>>

\* The document the selector is first run over: none, or one an older version
\* left, with a run in progress that has neither created_at nor last_updated;
\* VideoState() has loaded and migrated it.
SelectDocuments ==
    {Empty, [i \in {1} |-> Del(CurrentSession("in_progress"), {"created_at", "last_updated"})]}

SelectInit ==
    /\ \E before \in SelectDocuments :
          /\ mem = migrate_sessions(before, 0).state
          /\ disk = Doc(mem)
          /\ nextId = Cardinality(DOMAIN before)
    /\ up = TRUE
    /\ peer = Empty
    /\ sync = [main |-> "ready", peer |-> "ready", empty |-> FALSE]
    /\ now = 0
    /\ nops = 0
    /\ pc = "idle"
    /\ ctl = IdleCtl
    /\ valid = {}
    /\ videos = {}
    /\ nextFile = 0
    /\ invs = 0
    /\ healthy = FALSE
    /\ obs = NoObs
    /\ last = [op |-> "init", io |-> "ok", raised |-> FALSE]

SelectNext ==
    \/ Tick
    \/ Create("ok")
    \/ SaveStep("ok")
    \/ MarkCompleted("ok")
    \/ MarkFailed("ok")
    \/ \E force_new, clean \in BOOLEAN : SelectRun(force_new, clean)

SelectSpec == SelectInit /\ [][SelectNext]_vars

\* ------------------------------------------- two processes over one document
\* Each process constructs its own VideoState, which keeps its own _state and
\* rewrites the whole document from it at every save.  mem is the _state of the
\* first process, peer the _state of the second; both were constructed over the
\* same, still empty, document and may be constructed again at any time.
\* A save is two steps, open(..., 'w'), which truncates the file, and the
\* dump; a call of a store method is one step up to the open of its save, a
\* construction is the load with the migration and then the save of what was
\* migrated.  The other process may act between any two of these: it reads
\* an empty file while a save is open, and a dump lands on what the other
\* process wrote since the open.  A process advances only the runs it
\* created: the first creates runs of MainNiche, the second runs of
\* PeerNiche.
MainNiche == "Science"

PeerNiche == "History"

Owned(st, niche) == {i \in DOMAIN st : st[i].niche = niche}

\* One call of a store method on the second process's object, up to the open
\* of its save.
PeerApply(res, io, rec) ==
    /\ Constructed("peer")
    /\ nops < MaxOps
    /\ nops' = nops + 1
    /\ res.save \/ io = "ok"
    /\ peer' = res.state
    /\ disk' = Persist(res, disk, io)
    /\ sync' = IF io = "opened" THEN [sync EXCEPT !.peer = "opened", !.empty = TRUE] ELSE sync
    /\ last' = Put([rec EXCEPT !.io = io], "raised", FALSE)
    /\ UNCHANGED <<mem, up, now, pc, ctl, valid, videos, nextFile, invs, healthy, obs>>

PeerCreate(io) ==
    /\ nextId < MaxRuns
    /\ nextId' = nextId + 1
    /\ PeerApply(create_video_session(peer, nextId + 1, PeerNiche, "English", now), io,
                 [op |-> "peer_create", id |-> nextId + 1, io |-> io])

PeerSaveStep(io) ==
    \E i \in Owned(peer, PeerNiche), step \in StoreSteps : \E data \in StorePayloads(step) :
        /\ Len(peer[i].steps_completed) < MaxSteps
        /\ PeerApply(save_step_result(peer, i, step, data, now), io,
                     [op |-> "peer_save_step", id |-> i, step |-> step, data |-> data, io |-> io])
        /\ UNCHANGED nextId

PeerMarkCompleted(io) ==
    \E i \in Owned(peer, PeerNiche), video_path \in {2} :
        /\ PeerApply(mark_completed(peer, i, video_path, now), io,
                     [op |-> "peer_mark_completed", id |-> i, video_path |-> video_path, io |-> io])
        /\ UNCHANGED nextId

PeerMarkFailed(io) ==
    \E i \in Owned(peer, PeerNiche), error_message \in {MsgScript} :
        /\ PeerApply(mark_failed(peer, i, error_message, now), io,
                     [op |-> "peer_mark_failed", id |-> i, error |-> error_message, io |-> io])
        /\ UNCHANGED nextId

\* VideoState.__init__ of process p, the document present, up to the save:
\* _load_state, which reads the file as it is (empty while a save of the other
\* process is open), and the loop of _migrate_sessions.  When the loop
\* modified a run the save is still to come.
Loaded(p, res) ==
    /\ Constructed(p)
    /\ sync' = IF res.save THEN [sync EXCEPT ![p] = "migrated"] ELSE sync
    /\ last' = [op |-> IF p = "main" THEN "open" ELSE "peer_open", io |-> "ok",
                loaded |-> disk.valid, modified |-> res.save, raised |-> FALSE]
    /\ UNCHANGED <<disk, up, now, nextId, nops, pc, ctl, valid, videos, nextFile, invs, healthy, obs>>

\* "if modified: self._save_state()", the end of VideoState.__init__ of
\* process p: open(..., 'w') truncates the file.
Migrated(p) ==
    /\ sync[p] = "migrated"
    /\ disk' = save_state(IF p = "main" THEN mem ELSE peer, disk, "opened")
    /\ sync' = [sync EXCEPT ![p] = "opened", !.empty = TRUE]
    /\ last' = [op |-> IF p = "main" THEN "open_save" ELSE "peer_open_save", io |-> "opened",
                raised |-> save_state_raises("opened")]
    /\ UNCHANGED <<mem, peer, up, now, nextId, nops, pc, ctl, valid, videos, nextFile, invs, healthy, obs>>

\* json.dump of the save that process p had opened: its _state is written
\* from the start of the file.
Dumped(p) ==
    /\ sync[p] = "opened"
    /\ disk' \in Landed(IF p = "main" THEN mem ELSE peer)
    /\ sync' = [sync EXCEPT ![p] = "ready", !.empty = FALSE]
    /\ last' = [op |-> IF p = "main" THEN "dump" ELSE "peer_dump",
                io |-> IF disk'.valid THEN "ok" ELSE "overlapped", raised |-> FALSE]
    /\ UNCHANGED <<mem, peer, up, now, nextId, nops, pc, ctl, valid, videos, nextFile, invs, healthy, obs>>

PeerOpen ==
    \E res \in {migrate_sessions(load_state(disk), now)} :
        /\ peer' = res.state
        /\ Loaded("peer", res)
        /\ UNCHANGED mem

PeerOpenSave == Migrated("peer")

PeerDump == Dumped("peer")

MainOpen ==
    \E res \in {migrate_sessions(load_state(disk), now)} :
        /\ mem' = res.state
        /\ Loaded("main", res)
        /\ UNCHANGED peer

MainOpenSave == Migrated("main")

MainDump == Dumped("main")

\* The store method just called by the first process was on a run it created.
MainOwnsRun == last'.id \in Owned(mem, MainNiche)

PairNext ==
    \/ Create("opened")
    \/ SaveStep("opened") /\ MainOwnsRun
    \/ MarkCompleted("opened") /\ MainOwnsRun
    \/ MarkFailed("opened") /\ MainOwnsRun
    \/ MainOpen
    \/ MainOpenSave
    \/ MainDump
    \/ PeerOpen
    \/ PeerOpenSave
    \/ PeerDump
    \/ PeerCreate("opened")
    \/ PeerSaveStep("opened")
    \/ PeerMarkCompleted("opened")
    \/ PeerMarkFailed("opened")

PairSpec == Init /\ [][PairNext]_vars

\* ---------------------------------------------------- properties of the store
\* The step just taken was a call of the store method op.
Called(op) == nops' = nops + 1 /\ last'.op = op

\* C1: once a run's status is completed or failed, a save_step on that run
\* leaves its data mapping as it was, whatever the stage name and payload.
C1_TerminalImmutability ==
    [][(/\ Called("save_step")
        /\ last'.id \in DOMAIN mem
        /\ mem[last'.id].status \in Terminal)
       => mem'[last'.id].data = mem[last'.id].data]_vars

\* C7: for a run that is in the store before and after a step, the earlier
\* steps_completed is a prefix of the later one and every stage key of data
\* is still a key of data, in memory and in the persisted document.
C7_MonotonicCheckpoints ==
    [][/\ \A r \in DOMAIN mem \cap DOMAIN mem' :
            /\ IsPrefix(mem[r].steps_completed, mem'[r].steps_completed)
            /\ DOMAIN mem[r].data \subseteq DOMAIN mem'[r].data
       /\ \A r \in DOMAIN disk.runs \cap DOMAIN disk'.runs :
            /\ IsPrefix(disk.runs[r].steps_completed, disk'.runs[r].steps_completed)
            /\ DOMAIN disk.runs[r].data \subseteq DOMAIN disk'.runs[r].data]_vars

\* A run holds two checkpoints, the second written over a different first one.
C7_Witness ==
    /\ last.op = "save_step"
    /\ last.id \in DOMAIN mem
    /\ Len(mem[last.id].steps_completed) = 2
    /\ DOMAIN mem[last.id].data = {"topic", "script"}

\* C8: save_step on a known run appends the stage to steps_completed, sets
\* data[stage] to the payload, sets the status to in_progress only if the run
\* is not terminal, and leaves every other stage's payload and every other
\* run unchanged.
C8_SaveStepEffect ==
    [][(Called("save_step") /\ last'.id \in DOMAIN mem)
       => LET i == last'.id
              step == last'.step
          IN /\ DOMAIN mem' = DOMAIN mem
             /\ mem'[i].steps_completed = Append(mem[i].steps_completed, step)
             /\ step \in DOMAIN mem'[i].data
             /\ mem'[i].data[step] = last'.data
             /\ mem'[i].status = IF mem[i].status \in Terminal THEN mem[i].status
                                 ELSE "in_progress"
             /\ \A s \in DOMAIN mem[i].data \ {step} :
                    s \in DOMAIN mem'[i].data /\ mem'[i].data[s] = mem[i].data[s]
             /\ \A j \in DOMAIN mem \ {i} : mem'[j] = mem[j]]_vars

\* C9: save_step, mark_completed and mark_failed with an identifier that is
\* not in the store change nothing, in memory or in the persisted document,
\* create no run, and return to the caller.
C9_UnknownRunNoOp ==
    [][(/\ nops' = nops + 1
        /\ last'.op \in {"save_step", "mark_completed", "mark_failed"}
        /\ last'.id \notin DOMAIN mem)
       => (mem' = mem /\ disk' = disk /\ up')]_vars

\* The last call named a run the store does not hold, beside one it does.
C9_Witness ==
    /\ last.op \in {"save_step", "mark_completed", "mark_failed"}
    /\ last.id \notin DOMAIN mem
    /\ mem # Empty
    /\ up

\* C10: when the process dies during a save_step, the persisted document is
\* afterwards either exactly what it was or the document with the full new
\* payload, never a partially written one.
C10_SaveStepAtomic ==
    [][(Called("save_step") /\ last'.io \in Crashes)
       => disk' \in {disk,
                     Doc(save_step_result(mem, last'.id, last'.step, last'.data, now).state)}]_vars

\* C11: when the write of the document fails during create, save_step,
\* mark_completed or mark_failed, the method reports the failure to its caller;
\* it does not return normally with the in-memory state differing from what
\* the document holds.
C11_WriteFailureSurfaced ==
    [][(/\ nops' = nops + 1
        /\ last'.op \in {"create", "save_step", "mark_completed", "mark_failed"}
        /\ last'.io \in {"open_error", "write_error"})
       => (last'.raised \/ mem' = load_state(disk'))]_vars

\* C12: a store opened on a document that cannot be loaded does not go on (the
\* failure is raised), and the next store method called after such a load does
\* not rewrite the document.
C12_LoadFailureIsFailure ==
    [][/\ (last'.op = "open" /\ ~last'.loaded) => (last'.raised \/ ~up')
       /\ (last.op = "open" /\ ~last.loaded /\ nops' = nops + 1) => disk' = disk]_vars

\* C13: list_incomplete returns exactly the runs of the store whose status is
\* initialized, in_progress or failed: each of them is returned, nothing that
\* is not in the store is, and no completed run is.
C13_ListIncompleteExact ==
    last.op = "list_incomplete" =>
        /\ last.result \subseteq DOMAIN mem
        /\ \A i \in DOMAIN mem :
              /\ mem[i].status \in {"initialized", "in_progress", "failed"} => i \in last.result
              /\ mem[i].status = "completed" => i \notin last.result

\* The listing returned a failed run.
C13_Witness ==
    /\ last.op = "list_incomplete"
    /\ \E i \in last.result : mem[i].status = "failed"

\* C14: delete_incomplete removes every run that is not completed and leaves
\* every completed run as it was, in memory and in the document; afterwards
\* list_incomplete is empty.
C14_DeleteIncomplete ==
    [][Called("cleanup_incomplete")
       => /\ DOMAIN mem' = {i \in DOMAIN mem : mem[i].status = "completed"}
          /\ \A i \in DOMAIN mem' : mem'[i] = mem[i]
          /\ disk'.runs = mem'
          /\ get_incomplete_sessions(mem') = {}]_vars

\* A failed run was deleted while a completed run stayed.
C14_Witness ==
    /\ last.op = "cleanup_incomplete"
    /\ nextId = 2
    /\ DOMAIN mem = {1}
    /\ mem[1].status = "completed"

\* C15: delete_completed_older_than(threshold) removes exactly the completed
\* runs whose completed_at lies more than the threshold (a number of days)
\* before now, and leaves every other run unchanged.
C15_DeleteCompletedOlder ==
    [][Called("cleanup_completed")
       => /\ DOMAIN mem' =
                DOMAIN mem \ {i \in DOMAIN mem :
                                /\ mem[i].status = "completed"
                                /\ now - mem[i].completed_at > last'.days_old * TicksPerDay}
          /\ \A i \in DOMAIN mem \cap DOMAIN mem' : mem'[i] = mem[i]]_vars

\* C16: mark_failed(msg) on a completed or failed run leaves it failed with
\* error = msg, and mark_completed(path) on a completed or failed run leaves
\* it completed with video_path = path.
C16_TerminalOverwrite ==
    [][/\ (Called("mark_failed") /\ last'.id \in DOMAIN mem
                                 /\ mem[last'.id].status \in Terminal)
            => /\ mem'[last'.id].status = "failed"
               /\ mem'[last'.id].error = last'.error
               /\ disk'.runs = mem'
       /\ (Called("mark_completed") /\ last'.id \in DOMAIN mem
                                    /\ mem[last'.id].status \in Terminal)
            => /\ mem'[last'.id].status = "completed"
               /\ mem'[last'.id].video_path = last'.video_path
               /\ disk'.runs = mem']_vars

\* A completed run was marked failed.
C16_Witness ==
    /\ last.op = "mark_failed"
    /\ last.id \in DOMAIN mem
    /\ mem[last.id].status = "failed"
    /\ "completed_at" \in DOMAIN mem[last.id]

\* ------------------------------------------------- properties of the pipeline
Pipeline == Append(StageOrder, "assemble")

Position(stage) == CHOOSE i \in 1..Len(Pipeline) : Pipeline[i] = stage

\* The controller waits on a collaborator call.
Calls == SeqRange(Pipeline) \cup {"description", "hung"}

\* The stage whose collaborator the controller is calling.
StageAt(p) ==
    CASE p = "description" -> "metadata"
      [] p = "hung" -> "assemble"
      [] OTHER -> p

\* C2: a run enters the persisted document as initialized, and no step takes
\* its status from completed or failed to in_progress or initialized, or from
\* in_progress to initialized, resumes of a failed run included.
C2_StatusForward ==
    [][/\ \A r \in DOMAIN disk'.runs \ DOMAIN disk.runs :
            disk'.runs[r].status = "initialized"
       /\ \A r \in DOMAIN disk.runs \cap DOMAIN disk'.runs :
            /\ disk.runs[r].status \in Terminal => disk'.runs[r].status \in Terminal
            /\ disk.runs[r].status = "in_progress"
                  => disk'.runs[r].status # "initialized"]_vars

\* The run held checkpoints for stages 1..k when the invocation began.
HeldPrefix(k) == \A i \in 1..k : StageOrder[i] \in DOMAIN obs.snap

\* The controller holds the payload the checkpoint held when the invocation
\* began.  The script is held as it was stored for as long as narration is
\* skipped; a narration stage that is not skipped (it is then none of the
\* stages 1..k) speaks the adopted script stripped of what is not to be spoken
\* and leaves it so in the controller (Video.py:467).
Adopted(stage) ==
    CASE stage = "topic" -> ctl.v.subject = obs.snap["topic"].subject
      [] stage = "script" ->
            ctl.v.script = IF "tts" \in obs.called \/ pc = "tts"
                           THEN Some(CleanScript(obs.snap["script"].content[1]))
                           ELSE obs.snap["script"].content
      [] stage = "metadata" -> ctl.v.metadata = Some(obs.snap["metadata"])
      [] stage = "image_prompts" ->
            ctl.v.image_prompts = Some(obs.snap["image_prompts"].prompts)
      [] stage = "images" -> ctl.v.images = obs.snap["images"].paths
      [] stage = "tts" -> ctl.v.tts_path = Some(obs.snap["tts"].path)

\* No collaborator call for the stage, its checkpoint as it was, its payload
\* adopted.
Skipped(stage) ==
    /\ stage \notin obs.called
    /\ stage \in DOMAIN Data(Ctx)
    /\ Data(Ctx)[stage] = obs.snap[stage]
    /\ Adopted(stage)

\* As many image paths were saved as there are image prompts.
ImagesSatisfied ==
    Len(obs.snap["images"].paths) = Len(obs.snap["image_prompts"].prompts)

\* C3 (as stated): for every k, an invocation on a run that holds checkpoints
\* for stages 1..k calls no collaborator of stages 1..k, adopts the stored
\* payloads and leaves those checkpoints unchanged.
C3_ResumeSkipsAll ==
    \A k \in 1..Len(StageOrder) :
        HeldPrefix(k) => \A i \in 1..k : Skipped(StageOrder[i])

\* C3 (amended): the same for every stage of 1..k but images, and for images
\* when as many paths were saved as there are prompts; in particular a
\* checkpointed tts path is reused as it is.
C3_IdempotentResume ==
    \A k \in 1..Len(StageOrder) :
        HeldPrefix(k) =>
            \A i \in 1..k :
                (StageOrder[i] = "images" => ImagesSatisfied) => Skipped(StageOrder[i])

\* A resumed run that held all six checkpoints went straight to the assembly
\* and produced its video.
C3_Witness ==
    /\ obs.resumed
    /\ HeldPrefix(Len(StageOrder))
    /\ ImagesSatisfied
    /\ obs.called = {"assemble"}
    /\ pc = "done"
    /\ ctl.ret # None

\* C4: within one invocation the collaborators are called in the order topic,
\* script, metadata, image_prompts, images, tts, assemble, and a stage's
\* collaborator is called only when its predecessor's checkpoint is in the
\* run's data.
C4_StageOrder ==
    /\ \A i, j \in 1..Len(obs.order) :
            i < j => Position(obs.order[i]) < Position(obs.order[j])
    /\ pc \in Calls /\ Position(StageAt(pc)) > 1
          => Pipeline[Position(StageAt(pc)) - 1] \in DOMAIN Data(Ctx)

\* C5: when a stage's collaborator has returned no result, then by the next
\* collaborator call or return of the controller the invocation is over and
\* the run failed, the stage has no checkpoint, and no collaborator of a later
\* stage has been called.  (A single image that cannot be acquired is skipped
\* by design, so the images stage is left out.)
C5_ExhaustedStops ==
    pc \notin Labels =>
    \A stage \in obs.exhausted \ {"images"} :
        /\ pc = "done"
        /\ ctl.sid \in DOMAIN mem
        /\ mem[ctl.sid].status = "failed"
        /\ stage \notin DOMAIN Data(Ctx)
        /\ \A later \in obs.called : Position(later) <= Position(stage)

\* The stage function called itself after a rejected output and waits on its
\* collaborator again.
Retried(call) == pc = call /\ ctl.depth > 0

\* C17: every script held in a script checkpoint is non-empty, at most 5000
\* characters long and free of '*'; a collaborator result that is longer than
\* 5000 characters after the '*' are removed writes no script checkpoint and
\* the stage is retried.
C17_ScriptAcceptance ==
    /\ \A r \in DOMAIN disk.runs :
          "script" \in DOMAIN disk.runs[r].data =>
              LET content == disk.runs[r].data["script"].content
              IN /\ content # None
                 /\ StrLen(content[1]) > 0
                 /\ StrLen(content[1]) <= ScriptLimit
                 /\ \A i \in 1..Len(content[1]) : content[1][i][1] # "*"
    /\ (/\ obs.heard.call = "script"
        /\ obs.heard.value # None
        /\ StrLen(RemoveStars(obs.heard.value[1])) > ScriptLimit)
          => ("script" \notin DOMAIN Data(Ctx) /\ Retried("script"))

\* A script that came with '*' in it was checkpointed without them.
C17_Witness ==
    /\ obs.heard.call = "script"
    /\ obs.heard.value # None
    /\ \E i \in 1..Len(obs.heard.value[1]) : obs.heard.value[1][i][1] = "*"
    /\ "script" \in DOMAIN Data(Ctx)
    /\ Data(Ctx)["script"].content = Some(RemoveStars(obs.heard.value[1]))

\* C18: every title held in a metadata checkpoint is at most 100 characters
\* long; a title of more than 100 characters writes no metadata checkpoint and
\* the stage is retried.
C18_TitleAcceptance ==
    /\ \A r \in DOMAIN disk.runs :
          "metadata" \in DOMAIN disk.runs[r].data =>
              /\ disk.runs[r].data["metadata"].title # None
              /\ StrLen(disk.runs[r].data["metadata"].title[1]) <= TitleLimit
    /\ (/\ obs.heard.call = "metadata"
        /\ obs.heard.value # None
        /\ StrLen(obs.heard.value[1]) > TitleLimit)
          => ("metadata" \notin DOMAIN Data(Ctx) /\ Retried("metadata"))

\* A title of exactly 100 characters was checkpointed.
C18_Witness ==
    /\ "metadata" \in DOMAIN Data(Ctx)
    /\ "metadata" \in obs.called
    /\ StrLen(Data(Ctx)["metadata"].title[1]) = TitleLimit

\* C19: a collaborator output that is a JSON array, a JSON object holding an
\* image_prompts array, or text around a bracketed array, yields the prompt
\* strings of that array: they are what the image_prompts checkpoint holds
\* (up to the limit on their number).
C19_PromptParsing ==
    (/\ obs.heard.call = "image_prompts"
     /\ obs.heard.value # None
     /\ obs.heard.value[1].kind \in {"array", "object", "prose_array"})
       => /\ "image_prompts" \in DOMAIN Data(Ctx)
          /\ Data(Ctx)["image_prompts"].prompts =
                SubSeq(obs.heard.value[1].items, 1,
                       Len(Data(Ctx)["image_prompts"].prompts))
          /\ \/ Len(Data(Ctx)["image_prompts"].prompts) = Len(obs.heard.value[1].items)
             \/ Len(Data(Ctx)["image_prompts"].prompts) = G4FPromptKeep

\* C20: a collaborator output from which no parsing shape yields a non-empty
\* list (no result, text without brackets, unparsable text, an empty array)
\* writes no image_prompts checkpoint, and the stage is retried with a new
\* collaborator call; the run is not failed by it.
C20_UnparsableRetried ==
    (/\ obs.heard.call = "image_prompts"
     /\ \/ obs.heard.value = None
        \/ obs.heard.value[1].kind \in {"prose", "prose_mention"}
        \/ obs.heard.value[1].items = <<>>)
       => ("image_prompts" \notin DOMAIN Data(Ctx) /\ Retried("image_prompts"))

\* C21: the number of prompts asked for is min(script_length / 3, 10) under
\* the constrained image provider and script_length / 3 otherwise (as a whole
\* number), and the checkpointed list is the returned list cut to at most 25
\* entries under the constrained provider, to at most script_length / 3
\* entries otherwise.
C21_PromptCount ==
    last.op = "generate_prompts" =>
        /\ last.requested = IF last.useG4F
                            THEN Min(last.script_length \div 3, G4FPromptCap)
                            ELSE last.script_length \div 3
        /\ last.kept = IF last.useG4F
                       THEN Min(last.returned, G4FPromptKeep)
                       ELSE Min(last.returned, last.script_length \div 3)

\* Under the constrained provider 25 prompts were kept of 26, more than the 10
\* asked for.
C21_Witness ==
    /\ last.op = "generate_prompts"
    /\ last.useG4F
    /\ last.requested = G4FPromptCap
    /\ last.returned > G4FPromptKeep
    /\ last.kept = G4FPromptKeep

\* C22: on a resume of a run that holds an images checkpoint, no image is
\* acquired when as many paths were saved as there are prompts; otherwise
\* images are acquired anew, and when the stage is over the image list holds
\* only paths of this pass (none of the paths saved before), at most one for
\* each prompt.
C22_ImagesOnResume ==
    (obs.resumed /\ "images" \in DOMAIN obs.snap /\ "image_prompts" \in DOMAIN obs.snap) =>
        LET saved == obs.snap["images"].paths
            prompts == obs.snap["image_prompts"].prompts
        IN /\ Len(saved) = Len(prompts) => "images" \notin obs.called
           /\ (Len(saved) # Len(prompts) /\ pc \in {"tts", "assemble", "done"})
                => /\ "images" \in obs.called
                   /\ Len(ctl.v.images) <= Len(prompts)
                   /\ \A i \in 1..Len(ctl.v.images) : ctl.v.images[i] \notin SeqRange(saved)
                   /\ Data(Ctx)["images"].paths = ctl.v.images

\* The valid images of the assembly that has just run: those of its image
\* list that existed and opened when it ran.
Loadable ==
    SelectSeq(ctl.v.images, LAMBDA image_path : image_path \in obs.heard.value.loadable)

Assembled == obs.heard.call = "assemble"

\* Nothing but the images and the background track stood in the way of the
\* assembly that has just run: its narration was there and opened, and the
\* subtitles, the rendering and the copy went through.
Unfaulted ==
    /\ obs.heard.value.fault = "none"
    /\ ctl.v.tts_path[1] \in obs.heard.value.loadable

\* C23: after an assembly that found no image that exists and opens, the run
\* is failed, holds no video_path, no video was produced and generate_video
\* gave no path; when nothing else went wrong the error says that no valid
\* image was found.
C23_NoLoadableImages ==
    (Assembled /\ Loadable = <<>>) =>
        /\ pc = "done"
        /\ mem[ctl.sid].status = "failed"
        /\ disk.runs[ctl.sid].status = "failed"
        /\ "video_path" \notin DOMAIN mem[ctl.sid]
        /\ ctl.ret = None
        /\ ctl.clip = NoClip
        /\ Unfaulted => mem[ctl.sid].error = MsgNoImages

\* Images were acquired, none of them opens, and the assembly failed the run.
C23_Witness ==
    /\ Assembled
    /\ Unfaulted
    /\ ctl.v.images # <<>>
    /\ Loadable = <<>>
    /\ mem[ctl.sid].status = "failed"
    /\ mem[ctl.sid].error = MsgNoImages

\* C24: when the build loop of an assembly over n >= 1 valid images has ended,
\* the clips, each lasting D / n, add up to at least the narration's duration
\* D (to more than n clips when n of them fall short of D in floating point),
\* and the clip that is rendered lasts exactly D.
C24_AssemblyDuration ==
    (Assembled /\ pc = "done" /\ Unfaulted /\ Loadable # <<>>) =>
        LET D == obs.heard.value.duration
            n == Len(Loadable)
        IN /\ ctl.clip.shown >= n * D
           /\ (obs.heard.value.short /\ D > 0) => ctl.clip.shown > n * D
           /\ ctl.ret # None => ctl.clip.duration = D

\* A video was built from two valid images of which one could not be
\* processed: the other was shown twice.
C24_Witness ==
    /\ Assembled
    /\ pc = "done"
    /\ ctl.ret # None
    /\ obs.heard.value.bad = "first"
    /\ Len(Loadable) = 2
    /\ ctl.clip.clips = 2
    /\ ctl.clip.duration = obs.heard.value.duration

\* C25: an assembly in which the processing of some valid image raises goes
\* on without that image and still produces the video; when the processing of
\* every valid image raises, the assembly ends and the run is failed for want
\* of clips.
C25_AssemblyFailurePolicy ==
    (Assembled /\ Unfaulted /\ Loadable # <<>>) =>
        /\ (obs.heard.value.bad = "first" /\ Cardinality(SeqRange(Loadable)) > 1) =>
              /\ pc = "done"
              /\ ctl.ret # None
              /\ mem[ctl.sid].status = "completed"
        /\ (obs.heard.value.bad = "all") =>
              /\ pc = "done"
              /\ ctl.ret = None
              /\ mem[ctl.sid].status = "failed"
              /\ mem[ctl.sid].error = MsgNoClips

\* C27: an assembly that finds no background track, or one that does not
\* load, produces the video all the same, with the narration as its only
\* audio, and completes the run: it does not fail it.
C27_NoSongNoFailure ==
    (/\ Assembled
     /\ obs.heard.value.song \in {"none", "invalid"}
     /\ Unfaulted
     /\ obs.heard.value.bad = "none"
     /\ obs.heard.value.duration > 0
     /\ Loadable # <<>>) =>
        /\ pc = "done"
        /\ ctl.ret # None
        /\ ctl.clip.copied
        /\ ctl.clip.audio = {"narration"}
        /\ mem[ctl.sid].status = "completed"
        /\ disk.runs[ctl.sid].status = "completed"

\* A video was completed with a background track that did not load.
C27_Witness ==
    /\ Assembled
    /\ obs.heard.value.song = "invalid"
    /\ ctl.clip.audio = {"narration"}
    /\ ctl.ret # None
    /\ mem[ctl.sid].status = "completed"

\* C28: a run whose status is completed holds the checkpoints of topic,
\* script, metadata, image_prompts, images and tts, and a video_path that
\* names a video file in the durable videos directory.
C28_CompletedHasArtifact ==
    \A r \in DOMAIN disk.runs :
        disk.runs[r].status = "completed" =>
            /\ {"topic", "script", "metadata", "image_prompts", "images", "tts"}
                  \subseteq DOMAIN disk.runs[r].data
            /\ "video_path" \in DOMAIN disk.runs[r]
            /\ disk.runs[r].video_path \in videos

\* The assembly has just rendered and copied the video of a run, which is
\* now completed.
C28_Witness ==
    /\ Assembled
    /\ ctl.clip.copied
    /\ disk.runs[ctl.sid].status = "completed"
    /\ disk.runs[ctl.sid].video_path \in videos

\* C26: an image of width w and height h with w / h < 9 / 16 is cropped to
\* its full width and the height w / (9 / 16), any other image to its full
\* height and the width (9 / 16) * h; the crop is no wider and no higher than
\* the image, and the clip is then resized to 1080 x 1920.
C26_AspectNormalization ==
    (last.op = "crop") =>
        /\ 16 * last.w < 9 * last.h =>
              /\ last.box.bound = "height"
              /\ last.box.width = last.w
              /\ last.box.height = RoundHalfEven(16 * last.w, 9)
        /\ 16 * last.w >= 9 * last.h =>
              /\ last.box.bound = "width"
              /\ last.box.height = last.h
              /\ last.box.width = RoundHalfEven(9 * last.h, 16)
        /\ last.box.width <= last.w
        /\ last.box.height <= last.h
        /\ last.canvas = <<1080, 1920>>

\* C30: with either backend, an acquisition that could reach its backend makes
\* up to three attempts: it yields the image of the first attempt that gives
\* one, and after three attempts without an image it yields nothing; it never
\* raises, so that the images stage goes on to the next prompt.
C30_AcquisitionRetried ==
    (last.op = "generate_image" /\ (last.useG4F \/ last.worker_url # None)) =>
        /\ last.result # "raised"
        /\ last.attempts \in 1..max_retries
        /\ last.result = "path" <=> (\E i \in 1..max_retries : last.outcomes[i] = "image")
        /\ last.result = "path" =>
              /\ last.outcomes[last.attempts] = "image"
              /\ \A i \in 1..(last.attempts - 1) : last.outcomes[i] # "image"
        /\ last.result = "none" => last.attempts = max_retries

\* C29: called without force_new and without clean, the selector resumes an
\* incomplete run whose last_updated (created_at when it has none) is the
\* latest among the incomplete runs, whenever there is one, and creates a run
\* when there is none; a run that is resumed is never a completed one nor one
\* chosen under force_new; with clean, every incomplete run is deleted and a
\* new run is created.
C29_RunSelection ==
    (last.op = "select") =>
        LET st == last.before
            incomplete == {i \in DOMAIN st : st[i].status # "completed"}
        IN /\ (~last.force_new /\ ~last.clean /\ incomplete # {}) =>
                 /\ last.resumed
                 /\ last.id \in incomplete
                 /\ \A j \in incomplete : SortKey(st[j]) <= SortKey(st[last.id])
           /\ (~last.force_new /\ incomplete = {}) =>
                 /\ ~last.resumed
                 /\ last.id \notin DOMAIN st
                 /\ last.id \in DOMAIN mem
           /\ last.resumed =>
                 /\ ~last.force_new
                 /\ last.id \in DOMAIN st
                 /\ st[last.id].status # "completed"
                 /\ DOMAIN mem = DOMAIN st
           /\ last.clean =>
                 /\ ~last.resumed
                 /\ last.id \notin DOMAIN st
                 /\ DOMAIN mem = (DOMAIN st \ incomplete) \cup {last.id}
                 /\ mem[last.id].status = "initialized"
           /\ disk = Doc(mem)

\* C31: a text generation makes at most three rounds over the providers
\* listed for each round, in their order, and nothing else; it returns the
\* first text a provider gives and calls no provider after it; it sleeps after
\* each round that gave nothing except the third; and it returns nothing only
\* when no call gave a text, after the third round when providers were listed
\* at the start.
C31_GenerationBounded ==
    (last.op = "generate_response") =>
        LET asked == [k \in 1..llm_max_retries |->
                        [i \in 1..last.available[k] |-> <<k, i>>]]
            all == asked[1] \o asked[2] \o asked[3]
            n == Len(last.calls)
            gave(call) == last.outcomes[call[1]][call[2]] = "text"
        IN /\ last.rounds <= llm_max_retries
           /\ n <= Len(all)
           /\ last.calls = SubSeq(all, 1, n)
           /\ \A j \in 1..(n - 1) : ~gave(last.calls[j])
           /\ last.response # None =>
                 /\ n > 0
                 /\ last.response = Some(last.calls[n])
                 /\ gave(last.calls[n])
                 /\ last.rounds = last.calls[n][1]
                 /\ last.sleeps = [k \in 1..(last.rounds - 1) |-> k]
           /\ last.response = None =>
                 /\ \A j \in 1..n : ~gave(last.calls[j])
                 /\ last.available[1] > 0 =>
                       /\ last.rounds = llm_max_retries
                       /\ last.calls = all
                       /\ last.sleeps = [k \in 1..(llm_max_retries - 1) |-> k]
                 /\ last.available[1] = 0 => (n = 0 /\ last.sleeps = <<>>)

\* The first two rounds gave nothing, the second provider of the third round
\* gave the text that is returned, after two sleeps.
C31_Witness ==
    /\ last.op = "generate_response"
    /\ last.response = Some(<<3, 2>>)
    /\ Len(last.calls) = 6
    /\ last.sleeps = <<1, 2>>

\* C32: within one invocation a stage function is re-invoked for rejected
\* output (a script or a title that is too long, a prompt list that does not
\* parse) no more often than the retry budget allows.
C32_RegenerationBounded ==
    ctl.depth <= llm_max_retries

\* C33: with two processes on one document, each advancing only the runs it
\* created, the document holds, whenever no save is under way, every run
\* either process created, with every checkpoint and the status that process
\* gave it.
C33_NoUpdateLost ==
    Constructed("main") /\ Constructed("peer") =>
        /\ \A i \in Owned(mem, MainNiche) :
               i \in DOMAIN disk.runs /\ disk.runs[i] = mem[i]
        /\ \A i \in Owned(peer, PeerNiche) :
               i \in DOMAIN disk.runs /\ disk.runs[i] = peer[i]

\* C34: loading a document back-fills every required field a run lacks (id,
\* created_at, status, steps_completed, data, and last_updated unless the run
\* is completed), leaves every field that was present as it was, rewrites the
\* document exactly when something was back-filled, and a second load
\* back-fills nothing and does not rewrite.
RequiredFields(session) ==
    {"id", "created_at", "status", "steps_completed", "data"}
        \cup (IF session.status = "completed" THEN {} ELSE {"last_updated"})

C34_MigrationIdempotent ==
    last.op = "migrate" =>
        /\ \A i \in DOMAIN last.before :
               /\ i \in DOMAIN last.first.state
               /\ RequiredFields(last.first.state[i]) \subseteq DOMAIN last.first.state[i]
               /\ \A f \in DOMAIN last.before[i] :
                      last.first.state[i][f] = last.before[i][f]
               /\ last.first.state[i].id = i
        /\ last.first.save = (last.first.state # last.before)
        /\ last.left = Doc(last.first.state)
        /\ last.second.state = last.first.state
        /\ ~last.second.save
        /\ last.after = last.left

C34_Witness ==
    /\ last.op = "migrate"
    /\ DOMAIN last.before[1] = {"niche", "language", "steps_completed", "data"}
    /\ last.first.save
    /\ last.first.state[1].status = "initialized"
    /\ last.first.state[1].last_updated = NoneTime
    /\ last.first.state[1].steps_completed = <<"topic">>
    /\ ~last.second.save

\* C35: once the images stage of an invocation is over, fresh or resumed, the
\* path list of the images checkpoint holds no path twice and no more paths
\* than the run has image prompts.
C35_ImagePathsDistinct ==
    ("images" \in obs.called /\ pc \in {"tts", "assemble", "done"}
        /\ "images" \in DOMAIN Data(Ctx) /\ "image_prompts" \in DOMAIN Data(Ctx)) =>
        LET paths == Data(Ctx)["images"].paths
        IN /\ Cardinality(SeqRange(paths)) = Len(paths)
           /\ Len(paths) <= Len(Data(Ctx)["image_prompts"].prompts)

\* C36: when generate_video has returned for a run the store holds, the run is
\* completed or failed: a path was returned exactly when it is completed, and
\* nothing was returned exactly when it is failed with an error recorded.
C36_ReturnsTerminal ==
    (pc = "done" /\ ctl.sid \in DOMAIN mem) =>
        /\ mem[ctl.sid].status \in {"completed", "failed"}
        /\ (ctl.ret # None) <=> (mem[ctl.sid].status = "completed")
        /\ (ctl.ret = None) <=>
               (mem[ctl.sid].status = "failed" /\ "error" \in DOMAIN mem[ctl.sid])
        /\ disk.runs = mem

C36_Witness ==
    /\ pc = "done"
    /\ obs.resumed
    /\ Assembled
    /\ ctl.ret = None
    /\ "images" \notin obs.called
    /\ mem[ctl.sid].status = "failed"
    /\ mem[ctl.sid].error = MsgNoImages

\* C37: for every run the controller works on, the stage names occurring in
\* steps_completed are exactly the keys of data, and topic, script, metadata,
\* image_prompts and tts each occur there at most once, however often the run
\* is resumed; only images may occur again.
Occurrences(steps, step) == Len(SelectSeq(steps, LAMBDA x : x = step))

C37_StepsMatchData ==
    \A i \in DOMAIN mem :
        /\ SeqRange(mem[i].steps_completed) = DOMAIN mem[i].data
        /\ \A step \in {"topic", "script", "metadata", "image_prompts", "tts"} :
               Occurrences(mem[i].steps_completed, step) <= 1
        /\ disk.runs[i].steps_completed = mem[i].steps_completed
        /\ disk.runs[i].data = mem[i].data

C37_Witness ==
    /\ obs.resumed
    /\ pc = "done"
    /\ Occurrences(mem[ctl.sid].steps_completed, "images") > 1
    /\ Occurrences(mem[ctl.sid].steps_completed, "topic") = 1
    /\ Occurrences(mem[ctl.sid].steps_completed, "tts") = 1
    /\ DOMAIN mem[ctl.sid].data =
           {"topic", "script", "metadata", "image_prompts", "images", "tts"}

\* C6: when the job is started again and again, each invocation coming to
\* its end, then once every collaborator call succeeds with acceptable
\* output, a run that is not completed is eventually completed by the resumes
\* that follow.
C6_ResumeCompletes ==
    ([]<>Running /\ []<>~Running) =>
        \A r \in 1..MaxInvocations :
            (healthy /\ r \in DOMAIN disk.runs /\ disk.runs[r].status # "completed")
                ~> (r \in DOMAIN disk.runs /\ disk.runs[r].status = "completed")

====
